---- MODULE Spec2Model ----
(***************************************************************************)
(* Model of the build-action engine, the internal build actions            *)
(* (ReloadLibraryDependencies, RemovePackages, MovePackages,               *)
(* CheckForProblems, CleanRepository, CustomCommand) and the StorageCache  *)
(* of arch-repo-manager.                                                   *)
(*                                                                         *)
(* Spec      : one build action, of any type, from creation to its end.    *)
(* SpecRemovePackages, SpecMovePackages, SpecReload, SpecClean : the same  *)
(*             for an action of the one type.                              *)
(* SpecCache : the StorageCache operations executed one after the other.   *)
(* SpecCacheThreads, SpecCacheInvalidate, SpecCacheStore : the StorageCache *)
(*             used by several threads, its operations split where they    *)
(*             release m_mutex.                                            *)
(* SpecReloadParse : ReloadLibraryDependencies while other actions change  *)
(*             the Config during the parse phase.                          *)
(* SpecConductBuild, SpecClient, SpecMetaInfo : the batches of a build,    *)
(*             one run of the client, lookups in the meta info.            *)
(* SpecMetaMappings : lookups of flags and settings in the meta info.      *)
(* SpecBuildOrderOptions : BuildOrderOptions combined and tested.          *)
(***************************************************************************)
EXTENDS Integers, Sequences, FiniteSets, TLC

\* ------------------------------------------------------------------ bounds
MaxPkgs == 2      \* package names given to an action / packages per database
MaxDbs == 2       \* databases of the Config
MaxWorkers == 2   \* threads parsing packages (hardware_concurrency())
MaxFiles == 2     \* files found in a repository directory
Limit == 2        \* capacity of the StorageCache (m_limit)
MaxId == 3        \* storage ids handed out by the backing store
MaxStores == 4    \* entry objects a client hands to the cache
MaxNames == 3     \* names of these entries
MaxChanges == 1   \* changes other actions make to the Config while ReloadLibraryDependencies runs
MaxBatches == 2   \* batches of a build preparation
BatchSize == 2    \* packages of a batch
MaxLookups == 2   \* lookups made in the BuildActionMetaInfo
MaxTests == 2     \* tests of an option made on BuildOrderOptions
MaxRaced == 1     \* names the threads that retrieve and invalidate concurrently are given

VARIABLES
    \* BuildAction record
    type, flags, destinationDbs, sourceDbs, packageNames, directory, command,
    status, result, resultData, reportCount, aborted,
    \* InternalBuildAction
    pc, configLock, buildingLock, m_messages,
    \* PackageMovementAction
    m_packageLocations, m_result, m_addErrorMessage, pending,
    \* the world outside: file-system mutations done, child processes launched, and how they ended
    fsLog, launched, exited,
    \* Config (databases with their indices) and ReloadLibraryDependencies
    cfg, rld,
    \* CleanRepository
    repoDirs,
    \* StorageCache
    cache, backing, heap, lastOp, txn, ops,
    \* ConductBuild, the command-line client, and the lookups in the BuildActionMetaInfo
    build, client, lookups,
    \* the BuildOrderOptions a caller combines and tests
    options

actionVars == <<type, flags, destinationDbs, sourceDbs, packageNames, directory, command,
    status, result, resultData, reportCount, aborted, pc, configLock, buildingLock, m_messages,
    m_packageLocations, m_result, m_addErrorMessage, pending, fsLog, launched, exited, cfg, rld, repoDirs>>
cacheVars == <<cache, backing, heap, lastOp, txn, ops>>
toolVars == <<build, client, lookups, options>>
vars == <<actionVars, cacheVars, toolVars>>

\* ---------------------------------------------------------------- helpers
Range(s) == {s[i] : i \in 1..Len(s)}
RemoveAt(s, i) == SubSeq(s, 1, i - 1) \o SubSeq(s, i + 1, Len(s))
SelectSeqNe(s, x) == SelectSeq(s, LAMBDA e : e # x)
Max(a, b) == IF a >= b THEN a ELSE b
Reverse(s) == [i \in 1..Len(s) |-> s[Len(s) + 1 - i]]
Path(kind, a, b) == <<kind, a, b>>
NamesOf(failed) == {failed[i][1] : i \in 1..Len(failed)}

PkgNames == 1..MaxPkgs
DbNames == 1..MaxDbs

ActionTypes == {"ReloadLibraryDependencies", "RemovePackages", "MovePackages",
                "CheckForProblems", "CleanRepository", "CustomCommand"}

\* BuildActionMessages{errors, warnings, notes}
NoMessages == [errors |-> <<>>, warnings |-> <<>>, notes |-> <<>>]
\* PackageMovementResult{failedPackages, processedPackages, errorMessage}
NoMovementResult == [failedPackages |-> <<>>, processedPackages |-> <<>>, errorMessage |-> ""]

\* --------------------------------------------------------- engine (spec 4.5)
\* the sets a submitter can fill the BuildAction record with
DbSubsets == SUBSET DbNames
NameLists == {[i \in 1..n |-> i] : n \in 0..MaxPkgs}

\* InternalBuildAction::reportResult: the one place that finishes an action
ReportResult(r) ==
    /\ result' = r
    /\ status' = "Finished"
    /\ reportCount' = reportCount + 1

\* InternalBuildAction::reportError(msg): a string as result data, Failure
ReportError(msg) ==
    /\ resultData' = [kind |-> "string", text |-> msg]
    /\ buildingLock' = TRUE
    /\ ReportResult("Failure")

\* InternalBuildAction::validateParameter: the error for the required dbs/params, "" if none
validateParameter(oneSource, destReq, needPackages) ==
    IF \E d \in sourceDbs \cup destinationDbs : ~cfg[d].exists THEN "database does not exist"
    ELSE IF oneSource /\ Cardinality(sourceDbs) # 1 THEN "not exactly one source database specified"
    ELSE IF destReq = "One" /\ Cardinality(destinationDbs) # 1 THEN "not exactly one destination database specified"
    ELSE IF destReq = "OneOrMore" /\ destinationDbs = {} THEN "no destination database specified"
    ELSE IF needPackages /\ packageNames = <<>> THEN "no packages specified"
    ELSE ""

worldVars == <<fsLog, launched, exited>>
inputVars == <<type, flags, destinationDbs, sourceDbs, packageNames, command>>
movementVars == <<m_packageLocations, m_result, m_addErrorMessage, pending>>
reportVars == <<status, result, resultData, reportCount, buildingLock>>

\* enqueue(action)
Enqueue ==
    /\ status = "Created"
    /\ status' = "Enqueued"
    /\ UNCHANGED <<inputVars, directory, result, resultData, reportCount, buildingLock, aborted, pc, configLock,
                   m_messages, movementVars, worldVars, cfg, rld, repoDirs, cacheVars, toolVars>>

\* the engine moves an enqueued action to Running and posts run()
Start ==
    /\ status = "Enqueued"
    /\ status' = "Running"
    /\ pc' = "run"
    /\ UNCHANGED <<inputVars, directory, result, resultData, reportCount, buildingLock, aborted, configLock,
                   m_messages, movementVars, worldVars, cfg, rld, repoDirs, cacheVars, toolVars>>

\* abort(id): sets the atomic abort flag of a running action
Abort ==
    /\ status = "Running"
    /\ ~aborted
    /\ aborted' = TRUE
    /\ UNCHANGED <<inputVars, directory, reportVars, pc, configLock,
                   m_messages, movementVars, worldVars, cfg, rld, repoDirs, cacheVars, toolVars>>

\* ------------------------------------------- PackageMovementAction (spec 4.9)
\* what Database::locatePackage finds for a package name
LocKinds == {"unlisted", "locateError", "absent", "plain", "link", "abslink"}

\* PackageMovementAction::locatePackages, for the names i..Len(packageNames)
RECURSIVE locatePackages(_, _)
locatePackages(i, kinds) ==
    IF i > Len(packageNames) THEN [failed |-> <<>>, locs |-> <<>>]
    ELSE LET rest == locatePackages(i + 1, kinds)
             name == packageNames[i]
         IN CASE kinds[i] = "unlisted" ->
                    [rest EXCEPT !.failed = <<<<name, "package not listed in database file">>>> \o @]
              [] kinds[i] = "locateError" ->
                    [rest EXCEPT !.failed = <<<<name, "unable to locate package within repo directory">>>> \o @]
              [] kinds[i] = "absent" ->
                    [rest EXCEPT !.failed = <<<<name, "package not present within repo directory">>>> \o @]
              [] OTHER ->
                    [rest EXCEPT !.locs = <<[name |-> name, storage |-> kinds[i] # "plain",
                                             absolute |-> kinds[i] = "abslink", ok |-> TRUE]>> \o @]

\* a prepareRepoAction that goes on when init() returned no lock
prepareRepoActionUnchecked(oneSource, exec, kinds, wdOk) ==
    LET loc == locatePackages(1, kinds)
        located == [m_result EXCEPT !.failedPackages = loc.failed]
        base == [proceed |-> FALSE, stringError |-> "", res |-> m_result, locs |-> <<>>, mkdir |-> FALSE]
    IN  IF exec = "noRemove" THEN [base EXCEPT !.stringError = "Unable to find repo-remove executable"]
        ELSE IF oneSource /\ exec = "noAdd" THEN [base EXCEPT !.stringError = "Unable to find repo-add executable"]
        ELSE IF loc.locs = <<>> THEN
            [base EXCEPT !.res = [located EXCEPT !.errorMessage = "none of the specified packages could be located"]]
        ELSE IF ~wdOk THEN
            [base EXCEPT !.res = [located EXCEPT !.errorMessage = "unable to make working directory"],
                         !.locs = loc.locs]
        ELSE [base EXCEPT !.proceed = TRUE, !.res = located, !.locs = loc.locs, !.mkdir = TRUE]

\* PackageMovementAction::prepareRepoAction with initWorkingDirectory: what it leaves behind
prepareRepoAction(oneSource, exec, kinds, wdOk) ==
    LET err == validateParameter(oneSource, "One", TRUE)
        loc == locatePackages(1, kinds)
        located == [m_result EXCEPT !.failedPackages = loc.failed]
        base == [proceed |-> FALSE, stringError |-> "", res |-> m_result, locs |-> <<>>, mkdir |-> FALSE]
    IN  IF err # "" THEN [base EXCEPT !.stringError = err]
        ELSE IF exec = "noRemove" THEN [base EXCEPT !.stringError = "Unable to find repo-remove executable"]
        ELSE IF oneSource /\ exec = "noAdd" THEN [base EXCEPT !.stringError = "Unable to find repo-add executable"]
        ELSE IF loc.locs = <<>> THEN
            [base EXCEPT !.res = [located EXCEPT !.errorMessage = "none of the specified packages could be located"]]
        ELSE IF ~wdOk THEN
            [base EXCEPT !.res = [located EXCEPT !.errorMessage = "unable to make working directory"],
                         !.locs = loc.locs]
        ELSE [base EXCEPT !.proceed = TRUE, !.res = located, !.locs = loc.locs, !.mkdir = TRUE]

\* PackageMovementAction::reportResultWithData: m_result is moved into resultData under the building lock
ReportResultWithData(r, res) ==
    /\ resultData' = [kind |-> "movement", data |-> res]
    /\ m_result' = NoMovementResult
    /\ buildingLock' = TRUE
    /\ ReportResult(r)

\* PackageMovementAction::initWorkingDirectory: an action without directory gets a generated one
initWorkingDirectory(p) == IF p.locs # <<>> /\ directory = "" THEN "repo-action-dir" ELSE directory

NamesOfLocs(locs) == [i \in 1..Len(locs) |-> locs[i].name]

\* RemovePackages::run
RemovePackagesRun ==
    /\ type = "RemovePackages" /\ pc = "run"
    /\ \E exec \in {"ok", "noRemove"}, wdOk \in BOOLEAN,
          kinds \in [1..Len(packageNames) -> LocKinds \ {"abslink"}] :
        LET p == prepareRepoAction(FALSE, exec, kinds, wdOk) IN
        /\ m_packageLocations' = p.locs
        /\ configLock' = "none"
        /\ directory' = initWorkingDirectory(p)
        /\ fsLog' = IF p.mkdir THEN fsLog \cup {[op |-> "mkdir", path |-> Path("workdir", 0, 0)]} ELSE fsLog
        /\ IF p.stringError # "" THEN
                /\ ReportError(p.stringError) /\ pc' = "done"
                /\ UNCHANGED <<m_result, launched>>
           ELSE IF ~p.proceed THEN
                /\ ReportResultWithData("Failure", p.res) /\ pc' = "done"
                /\ UNCHANGED launched
           ELSE /\ m_result' = [p.res EXCEPT !.processedPackages = NamesOfLocs(p.locs)]
                /\ launched' = launched \cup {[proc |-> "repo-remove", args |-> NamesOfLocs(p.locs)]}
                /\ pc' = "waitRepoRemove"
                /\ UNCHANGED reportVars
    /\ UNCHANGED <<inputVars, aborted, m_messages, m_addErrorMessage, pending, exited, cfg, rld, repoDirs, cacheVars, toolVars>>

\* what archiving one package does: "ok", the rename within the repo throws, or the rename of the storage location throws
ArchiveOutcomes == {"ok", "failRepo", "failStorage"}

\* RemovePackages::movePackagesToArchive, the loop from package i on; it is processedPackageIterator
RECURSIVE archiveLoop(_, _, _, _, _, _)
archiveLoop(i, out, it, processed, failed, fs) ==
    IF i > Len(m_packageLocations) THEN [processed |-> processed, failed |-> failed, fs |-> fs]
    ELSE LET l == m_packageLocations[i]
             repoMoved == fs \cup {[op |-> "rename", path |-> Path("repo", l.name, 0)]}
             bothMoved == repoMoved \cup {[op |-> "rename", path |-> Path("storage", l.name, 0)]}
         IN IF out[i] = "failRepo" THEN
                archiveLoop(i + 1, out, it, RemoveAt(processed, it),
                    Append(failed, <<l.name, "unable to archive">>), fs)
            ELSE IF ~l.storage THEN archiveLoop(i + 1, out, it, processed, failed, repoMoved)
            ELSE IF out[i] = "failStorage" THEN
                archiveLoop(i + 1, out, it, RemoveAt(processed, it),
                    Append(failed, <<l.name, "unable to archive">>), repoMoved)
            ELSE archiveLoop(i + 1, out, it + 1, processed, failed, bothMoved)

movePackagesToArchive(out) == archiveLoop(1, out, 1, m_result.processedPackages, m_result.failedPackages, fsLog)

\* a handler that leaves the packages passed to repo-remove in processedPackages
repoRemoveErrorKeepingProcessed(res, exit) ==
    [errorMessage |-> IF exit = "launchError" THEN "unable to remove packages: launch"
                      ELSE "unable to remove package: repo-remove returned with exit code",
     failedPackages |-> res.failedPackages,
     processedPackages |-> res.processedPackages]
\* RemovePackages::handleRepoRemoveResult, m_result when repo-remove could not be invoked or exited non-zero
repoRemoveError(res, exit) ==
    [errorMessage |-> IF exit = "launchError" THEN "unable to remove packages: launch"
                      ELSE "unable to remove package: repo-remove returned with exit code",
     failedPackages |-> res.failedPackages \o
        [i \in 1..Len(res.processedPackages) |-> <<res.processedPackages[i], "repo-remove error">>],
     processedPackages |-> <<>>]

\* RemovePackages::handleRepoRemoveResult (with movePackagesToArchive when repo-remove succeeded)
RemoveHandleRepoRemoveResult ==
    /\ type = "RemovePackages" /\ pc = "waitRepoRemove"
    /\ \E exit \in {"launchError", "nonZero", "ok"}, out \in [1..Len(m_packageLocations) -> ArchiveOutcomes] :
        /\ exited' = exited \cup {[proc |-> "repo-remove", exit |-> exit]}
        /\ IF exit = "ok" THEN
               LET a == movePackagesToArchive(out)
                   res == [m_result EXCEPT !.processedPackages = a.processed, !.failedPackages = a.failed]
               IN  /\ fsLog' = a.fs
                   /\ IF a.failed = <<>> THEN ReportResultWithData("Success", res)
                      ELSE ReportResultWithData("Failure", [res EXCEPT !.errorMessage = "failed to remove packages"])
           ELSE
               /\ ReportResultWithData("Failure", repoRemoveError(m_result, exit))
               /\ UNCHANGED fsLog
    /\ pc' = "done"
    /\ UNCHANGED <<inputVars, directory, aborted, configLock, m_messages, m_packageLocations, m_addErrorMessage,
                   pending, launched, cfg, rld, repoDirs, cacheVars, toolVars>>

\* what copying one package to the destination repo does: "ok", the first file-system call throws,
\* or (package with storage location) the copy of the storage location throws after the symlink was copied
CopyOutcomes == {"ok", "fail", "failLate"}

\* MovePackages::run, the copy loop from package i on
RECURSIVE copyLoop(_, _, _, _, _, _)
copyLoop(i, out, locs, processed, failed, fs) ==
    IF i > Len(locs) THEN [locs |-> locs, processed |-> processed, failed |-> failed, fs |-> fs]
    ELSE LET l == locs[i]
             notOk == [locs EXCEPT ![i].ok = FALSE]
             linkCopied == fs \cup {[op |-> "mkdir", path |-> Path("destStorageDir", l.name, 0)],
                                    [op |-> "copy", path |-> Path("dest", l.name, 0)]}
             copyFailed == Append(failed, <<l.name, "unable to copy to destination repo">>)
         IN IF ~l.storage THEN
                IF out[i] = "ok" THEN
                    copyLoop(i + 1, out, locs, Append(processed, l.name), failed,
                        fs \cup {[op |-> "copy", path |-> Path("dest", l.name, 0)]})
                ELSE copyLoop(i + 1, out, notOk, processed, copyFailed, fs)
            ELSE IF out[i] = "fail" THEN copyLoop(i + 1, out, notOk, processed, copyFailed, fs)
            ELSE IF l.absolute THEN
                copyLoop(i + 1, out, notOk, processed,
                    Append(failed, <<l.name, "symlink with absolute target path">>), fs)
            ELSE IF out[i] = "failLate" THEN copyLoop(i + 1, out, notOk, processed, copyFailed, linkCopied)
            ELSE copyLoop(i + 1, out, locs, Append(processed, l.name), failed,
                    linkCopied \cup {[op |-> "copy", path |-> Path("destStorage", l.name, 0)]})

\* a run that hands the session to the handler of repo-add only
sessionHeldByRepoAddOnly == {"repo-add"}
\* the handlers run() binds processSession to: conclude() is called when the last of them has run
sessionHolders == {"repo-add", "repo-remove"}

\* MovePackages::run
MovePackagesRun ==
    /\ type = "MovePackages" /\ pc = "run"
    /\ \E exec \in {"ok", "noRemove", "noAdd"}, wdOk \in BOOLEAN,
          kinds \in [1..Len(packageNames) -> LocKinds] :
        LET p == prepareRepoAction(TRUE, exec, kinds, wdOk) IN
        /\ configLock' = "none"
        /\ directory' = initWorkingDirectory(p)
        /\ IF p.stringError # "" THEN
                /\ ReportError(p.stringError) /\ pc' = "done"
                /\ m_packageLocations' = p.locs
                /\ UNCHANGED <<m_result, launched, fsLog, pending>>
           ELSE IF ~p.proceed THEN
                /\ ReportResultWithData("Failure", p.res) /\ pc' = "done"
                /\ m_packageLocations' = p.locs
                /\ UNCHANGED <<launched, fsLog, pending>>
           ELSE \E out \in [1..Len(p.locs) -> CopyOutcomes] :
                LET c == copyLoop(1, out, p.locs, <<>>, p.res.failedPackages,
                                  fsLog \cup {[op |-> "mkdir", path |-> Path("workdir", 0, 0)]})
                    res == [p.res EXCEPT !.processedPackages = c.processed, !.failedPackages = c.failed]
                IN  /\ m_packageLocations' = c.locs
                    /\ fsLog' = c.fs
                    /\ IF c.processed = <<>> THEN
                            /\ ReportResultWithData("Failure", [res EXCEPT !.errorMessage =
                                    "none of the specified packages could be copied to the destination repo"])
                            /\ pc' = "done"
                            /\ UNCHANGED <<launched, pending>>
                       ELSE /\ m_result' = res
                            /\ launched' = launched \cup {[proc |-> "repo-add", args |-> c.processed],
                                                          [proc |-> "repo-remove", args |-> c.processed]}
                            /\ pending' = sessionHolders
                            /\ pc' = "waitChildren"
                            /\ UNCHANGED reportVars
    /\ UNCHANGED <<inputVars, aborted, m_messages, m_addErrorMessage, exited, cfg, rld, repoDirs, cacheVars, toolVars>>

\* a loop that takes every package for copied
ignoreNoPackage(l) == FALSE
\* if (!ok) continue: ignore packages which could not even be copied to the destination repo
ignorePackage(l) == ~l.ok

\* a loop that removes the file at the storage location as well, as RemovePackages archives it
removedWithStorageLocation(l) ==
    {Path("source", l.name, 0)} \cup (IF l.storage THEN {Path("sourceStorage", l.name, 0)} ELSE {})
\* std::filesystem::remove(packageLocation.pathWithinRepo): the package at the storage location is left
removedFromSourceRepo(l) == {Path("source", l.name, 0)}

\* MovePackages::handleRepoRemoveResult, the loop deleting the files from the source repo, from package i on
RECURSIVE removeLoop(_, _, _, _, _, _)
removeLoop(i, out, locs, processed, failed, fs) ==
    IF i > Len(locs) THEN [locs |-> locs, processed |-> processed, failed |-> failed, fs |-> fs]
    ELSE LET l == locs[i] IN
         IF ignorePackage(l) THEN removeLoop(i + 1, out, locs, processed, failed, fs)
         ELSE IF out[i] THEN removeLoop(i + 1, out, locs, processed, failed,
                                fs \cup {[op |-> "remove", path |-> q] : q \in removedFromSourceRepo(l)})
         ELSE removeLoop(i + 1, out, [locs EXCEPT ![i].ok = FALSE], SelectSeqNe(processed, l.name),
                Append(failed, <<l.name, "unable to remove from source repo">>), fs)

\* the members of the action the two handlers and conclude() work on, and the file system
movementState == [locs |-> m_packageLocations, res |-> m_result, addError |-> m_addErrorMessage, fs |-> fsLog]

\* a handler that leaves the files in the source repo alone when repo-add has reported an error before
handleRepoRemoveResultAfterRepoAdd(st, exit, out) ==
    IF exit = "ok" THEN
        LET r == removeLoop(1, out, st.locs, st.res.processedPackages, st.res.failedPackages, st.fs)
        IN  IF st.addError # "" THEN st
            ELSE [st EXCEPT !.locs = r.locs, !.res.processedPackages = r.processed, !.res.failedPackages = r.failed,
                            !.fs = r.fs]
    ELSE [st EXCEPT !.res.errorMessage =
                IF exit = "launchError" THEN "unable to remove packages: launch"
                ELSE "unable to remove package: repo-remove returned with exit code"]
\* MovePackages::handleRepoRemoveResult: the members and the file system afterwards; out tells for each
\* package whether std::filesystem::remove succeeds
handleRepoRemoveResult(st, exit, out) ==
    IF exit = "ok" THEN
        LET r == removeLoop(1, out, st.locs, st.res.processedPackages, st.res.failedPackages, st.fs)
        IN  [st EXCEPT !.locs = r.locs, !.res.processedPackages = r.processed, !.res.failedPackages = r.failed,
                       !.fs = r.fs]
    ELSE [st EXCEPT !.res.errorMessage =
                IF exit = "launchError" THEN "unable to remove packages: launch"
                ELSE "unable to remove package: repo-remove returned with exit code"]

\* MovePackages::handleRepoRemoveResult
MoveHandleRepoRemoveResult ==
    /\ type = "MovePackages" /\ pc = "waitChildren" /\ "repo-remove" \in pending
    /\ pending' = pending \ {"repo-remove"}
    /\ \E exit \in {"launchError", "nonZero", "ok"}, out \in [1..Len(m_packageLocations) -> BOOLEAN] :
        LET st == handleRepoRemoveResult(movementState, exit, out) IN
        /\ exited' = exited \cup {[proc |-> "repo-remove", exit |-> exit]}
        /\ m_packageLocations' = st.locs
        /\ m_result' = st.res
        /\ fsLog' = st.fs
    /\ UNCHANGED <<inputVars, directory, reportVars, aborted, pc, configLock, m_messages, m_addErrorMessage,
                   launched, cfg, rld, repoDirs, cacheVars, toolVars>>

\* MovePackages::handleRepoAddResult: the members and the file system afterwards
handleRepoAddResult(st, exit) ==
    [st EXCEPT !.addError = CASE exit = "launchError" -> "unable to add packages: launch"
                              [] exit = "nonZero" -> "unable to add packages: repo-add returned with exit code"
                              [] OTHER -> @]

\* MovePackages::handleRepoAddResult
MoveHandleRepoAddResult ==
    /\ type = "MovePackages" /\ pc = "waitChildren" /\ "repo-add" \in pending
    /\ pending' = pending \ {"repo-add"}
    /\ \E exit \in {"launchError", "nonZero", "ok"} :
        /\ exited' = exited \cup {[proc |-> "repo-add", exit |-> exit]}
        /\ m_addErrorMessage' = handleRepoAddResult(movementState, exit).addError
    /\ UNCHANGED <<inputVars, directory, reportVars, aborted, pc, configLock, m_messages, m_packageLocations,
                   m_result, fsLog, launched, cfg, rld, repoDirs, cacheVars, toolVars>>

\* argsToString(m_result.errorMessage, ", ", m_addErrorMessage) for the messages the handlers set
joinErrors(removeError, addError) ==
    CASE removeError = "unable to remove packages: launch" /\ addError = "unable to add packages: launch" ->
            "unable to remove packages: launch, unable to add packages: launch"
      [] removeError = "unable to remove packages: launch" /\ addError # "unable to add packages: launch" ->
            "unable to remove packages: launch, unable to add packages: repo-add returned with exit code"
      [] removeError # "unable to remove packages: launch" /\ addError = "unable to add packages: launch" ->
            "unable to remove package: repo-remove returned with exit code, unable to add packages: launch"
      [] OTHER ->
            "unable to remove package: repo-remove returned with exit code, unable to add packages: repo-add returned with exit code"

\* a conclusion that looks at the outcome of repo-remove only
moveConcludeIgnoringRepoAdd(res, addError) ==
    IF res.errorMessage = "" THEN
        [result |-> IF res.failedPackages = <<>> THEN "Success" ELSE "Failure",
         data |-> IF res.failedPackages # <<>> THEN [res EXCEPT !.errorMessage = "failed to move packages"] ELSE res]
    ELSE [result |-> "Failure",
          data |-> [errorMessage |-> res.errorMessage,
                    failedPackages |-> res.failedPackages \o
                        [i \in 1..Len(res.processedPackages) |-> <<res.processedPackages[i], "repo-remove error">>],
                    processedPackages |-> <<>>]]

\* the result and result data of MovePackages::conclude
moveConcludeResult(res, addError) ==
    LET hasRepoRemoveError == res.errorMessage # ""
        hasRepoAddError == addError # ""
        failureReason == IF hasRepoAddError /\ hasRepoRemoveError THEN "repo-add and repo-remove error"
                         ELSE IF hasRepoAddError THEN "repo-add error" ELSE "repo-remove error"
    IN  IF ~hasRepoAddError /\ ~hasRepoRemoveError THEN
            [result |-> IF res.failedPackages = <<>> THEN "Success" ELSE "Failure",
             data |-> IF res.failedPackages # <<>> THEN [res EXCEPT !.errorMessage = "failed to move packages"] ELSE res]
        ELSE [result |-> "Failure",
              data |-> [errorMessage |-> IF hasRepoAddError /\ hasRepoRemoveError THEN joinErrors(res.errorMessage, addError)
                                         ELSE IF hasRepoAddError THEN addError ELSE res.errorMessage,
                        failedPackages |-> res.failedPackages \o
                            [i \in 1..Len(res.processedPackages) |-> <<res.processedPackages[i], failureReason>>],
                        processedPackages |-> <<>>]]

\* MovePackages::conclude, called by the MultiSession when both handlers have run
MoveConclude ==
    /\ type = "MovePackages" /\ pc = "waitChildren" /\ pending = {}
    /\ LET c == moveConcludeResult(m_result, m_addErrorMessage) IN ReportResultWithData(c.result, c.data)
    /\ pc' = "done"
    /\ UNCHANGED <<inputVars, directory, aborted, configLock, m_messages, m_packageLocations, m_addErrorMessage,
                   pending, worldVars, cfg, rld, repoDirs, cacheVars, toolVars>>

\* -------------------------------------------------------------- CustomCommand
\* a run() that looks for the command before it looks for the directory
missingSettingCommandFirst ==
    IF command = "" THEN "No command specified."
    ELSE IF directory = "" THEN "No directory specified."
    ELSE ""
\* CustomCommand::run: the error for an empty directory or an empty command setting, "" if none
missingSetting ==
    IF directory = "" THEN "No directory specified."
    ELSE IF command = "" THEN "No command specified."
    ELSE ""

\* CustomCommand::run
CustomCommandRun ==
    /\ type = "CustomCommand" /\ pc = "run"
    /\ \E wd \in {"exists", "created", "fail"} :
        LET err == validateParameter(FALSE, "None", FALSE) IN
        IF err # "" THEN ReportError(err) /\ pc' = "done" /\ UNCHANGED worldVars
        ELSE IF missingSetting # "" THEN ReportError(missingSetting) /\ pc' = "done" /\ UNCHANGED worldVars
        ELSE IF wd = "fail" THEN
            ReportError("Unable to create working directory") /\ pc' = "done" /\ UNCHANGED worldVars
        ELSE /\ fsLog' = IF wd = "created" THEN fsLog \cup {[op |-> "mkdir", path |-> Path("workdir", 0, 0)]} ELSE fsLog
             /\ launched' = launched \cup {[proc |-> "command", args |-> <<>>]}
             /\ pc' = "waitCommand"
             /\ UNCHANGED <<reportVars, exited>>
    /\ UNCHANGED <<inputVars, directory, aborted, configLock, m_messages, movementVars, cfg, rld, repoDirs, cacheVars, toolVars>>

\* a handler that looks at result.errorCode only
commandErrorIgnoringExitCode(exit) == IF exit = "launchError" THEN "launch error" ELSE ""
\* the error the handler reports for the ProcessResult, "" if the command was invoked and exited with 0
commandError(exit) ==
    CASE exit = "launchError" -> "launch error"
      [] exit = "nonZero" -> "non-zero exit code"
      [] OTHER -> ""

\* the handler CustomCommand::run passes to the process
CustomCommandHandleResult ==
    /\ type = "CustomCommand" /\ pc = "waitCommand"
    /\ \E exit \in {"launchError", "nonZero", "ok"} :
        /\ exited' = exited \cup {[proc |-> "command", exit |-> exit]}
        /\ IF commandError(exit) # "" THEN ReportError(commandError(exit))
           ELSE buildingLock' = TRUE /\ ReportResult("Success") /\ UNCHANGED resultData
    /\ pc' = "done"
    /\ UNCHANGED <<inputVars, directory, aborted, configLock, m_messages, movementVars, fsLog, launched,
                   cfg, rld, repoDirs, cacheVars, toolVars>>

\* ----------------------------------------------------------- CheckForProblems
\* CheckForProblems::run
CheckForProblemsRun ==
    /\ type = "CheckForProblems" /\ pc = "run"
    /\ LET err == validateParameter(FALSE, "OneOrMore", FALSE) IN
        IF err # "" THEN ReportError(err)
        ELSE \E problems \in [destinationDbs -> SUBSET {"db file", "files db file", "binary package not present"}] :
                /\ resultData' = [kind |-> "problems", data |-> problems]
                /\ buildingLock' = TRUE
                /\ ReportResult("Success")
    /\ configLock' = "none"
    /\ pc' = "done"
    /\ UNCHANGED <<inputVars, directory, aborted, m_messages, movementVars, worldVars, cfg, rld, repoDirs, cacheVars, toolVars>>

\* ------------------------------------------------- Config, Database, Package
Libs == {"lib.so"}
PkgProvides == {<<"virt", 0>>}        \* provides[] of every package
PkgDependencies == {<<"base", 0>>}    \* dependencies[] of every package
NameKey(name) == <<"pkg", name>>

\* LibPkg::Package (the fields the actions read or write)
AbsentPackage == [present |-> FALSE, version |-> 0, buildDate |-> 0, hasInfo |-> FALSE, fileName |-> 0,
                  origin |-> "Unknown", timestamp |-> 0, libprovides |-> {}, libdepends |-> {}]
\* Package::fromPkgFileName: a package known from its file name only
FreshPackage(ver, file) == [present |-> TRUE, version |-> ver, buildDate |-> 1, hasInfo |-> TRUE, fileName |-> file,
                  origin |-> "PackageFileName", timestamp |-> 0, libprovides |-> {}, libdepends |-> {}]
\* a package whose contents were analysed by an earlier ReloadLibraryDependencies
AnalysedPackage == [FreshPackage(1, 1) EXCEPT !.origin = "PackageContents", !.timestamp = 1,
                  !.libprovides = Libs, !.libdepends = Libs]
\* a package without packageInfo
InfolessPackage == [FreshPackage(1, 0) EXCEPT !.hasInfo = FALSE]

\* the projections of package name of a database into its four indices
projections(pkg, name) ==
    [providedDeps |-> {<<k, name>> : k \in {NameKey(name)} \cup PkgProvides},
     requiredDeps |-> {<<k, name>> : k \in PkgDependencies},
     providedLibs |-> {<<l, name>> : l \in pkg.libprovides},
     requiredLibs |-> {<<l, name>> : l \in pkg.libdepends}]

\* Database::addPackageDependencies
addPackageDependencies(db, name) ==
    LET pr == projections(db.packages[name], name) IN
    [db EXCEPT !.providedDeps = @ \cup pr.providedDeps, !.requiredDeps = @ \cup pr.requiredDeps,
               !.providedLibs = @ \cup pr.providedLibs, !.requiredLibs = @ \cup pr.requiredLibs]

\* Database::removePackageDependencies
removePackageDependencies(db, name) ==
    LET others(index) == {e \in index : e[2] # name} IN
    [db EXCEPT !.providedDeps = others(@), !.requiredDeps = others(@),
               !.providedLibs = others(@), !.requiredLibs = others(@)]

\* Package::addDepsAndProvidesFromOtherPackage: <<merge applied, the package afterwards>>
addDepsAndProvidesFromOtherPackage(self, other) ==
    IF self.version = other.version /\ self.buildDate = other.buildDate
    THEN <<TRUE, [self EXCEPT !.libprovides = other.libprovides, !.libdepends = other.libdepends,
                              !.origin = other.origin]>>
    ELSE <<FALSE, self>>

\* Database::updatePackage
updatePackage(db, name, pkg) ==
    LET merged == IF db.packages[name].present THEN addDepsAndProvidesFromOtherPackage(pkg, db.packages[name])[2]
                  ELSE pkg
        removed == IF db.packages[name].present THEN removePackageDependencies(db, name) ELSE db
    IN  addPackageDependencies([removed EXCEPT !.packages[name] = merged], name)

\* Database::removePackage
removePackage(db, name) == [removePackageDependencies(db, name) EXCEPT !.packages[name] = AbsentPackage]

EmptyDatabase == [exists |-> TRUE, packages |-> [n \in PkgNames |-> AbsentPackage],
                  providedDeps |-> {}, requiredDeps |-> {}, providedLibs |-> {}, requiredLibs |-> {}]

\* a database holding the given packages, loaded by Database::loadPackages
RECURSIVE loadPackagesFrom(_, _, _)
loadPackagesFrom(db, pkgs, names) ==
    IF names = {} THEN db
    ELSE LET n == CHOOSE x \in names : TRUE IN
         loadPackagesFrom(IF pkgs[n].present THEN updatePackage(db, n, pkgs[n]) ELSE db, pkgs, names \ {n})
loadPackages(pkgs) == loadPackagesFrom(EmptyDatabase, pkgs, PkgNames)

\* the index invariant of a database (spec 3): every package is listed under all of its projections
indexed(db, name) ==
    LET pr == projections(db.packages[name], name) IN
    /\ pr.providedDeps \subseteq db.providedDeps /\ pr.requiredDeps \subseteq db.requiredDeps
    /\ pr.providedLibs \subseteq db.providedLibs /\ pr.requiredLibs \subseteq db.requiredLibs

\* ------------------------------------------ ReloadLibraryDependencies (spec 4.6)
Msg(t, d, n) == [text |-> t, db |-> d, pkg |-> n]

\* the elements of a set of numbers in ascending order
RECURSIVE SortedSeq(_)
SortedSeq(S) == IF S = {} THEN <<>> ELSE LET m == CHOOSE x \in S : \A y \in S : x <= y IN <<m>> \o SortedSeq(S \ {m})

InitialRld == [dbOrder |-> <<>>, relevantPkgs |-> {}, cdb |-> 1, cpkg |-> 1, relevant |-> <<>>, remaining |-> 0,
               skippingNote |-> FALSE, dbIt |-> 1, pkgIt |-> 1, threads |-> <<>>, cachingErrors |-> {},
               changes |-> 0]

\* InternalBuildAction::reportAbortedIfAborted, when the flag is set
ReportAborted ==
    /\ ReportResult("Aborted")
    /\ UNCHANGED <<resultData, buildingLock>>

\* ReloadLibraryDependencies::conclude
RldConcludeNow(messages) ==
    IF aborted THEN ReportAborted /\ m_messages' = messages
    ELSE /\ resultData' = [kind |-> "messages", data |-> messages]
         /\ m_messages' = NoMessages
         /\ buildingLock' = TRUE
         /\ ReportResult(IF messages.errors = <<>> THEN "Success" ELSE "Failure")

\* ReloadLibraryDependencies::run up to the loop over the packages of the relevant databases
RldRun ==
    /\ type = "ReloadLibraryDependencies" /\ pc = "run"
    /\ \E depRes \in [destinationDbs -> {"error", "self", "all"}], missing \in BOOLEAN :
        \* Config::pullDependentPackages finds the dependencies in the relevant databases, or reports them missing
        LET skipDependencies == "SkipDependencies" \in flags
            existing == {d \in DbNames : cfg[d].exists}
            failing == {d \in destinationDbs : ~skipDependencies /\ depRes[d] = "error"}
            relevantDbs == IF destinationDbs = {} THEN existing
                           ELSE destinationDbs \cup
                                (IF \E d \in destinationDbs : ~skipDependencies /\ depRes[d] = "all" THEN existing ELSE {})
            order == SortedSeq(relevantDbs)
        IN  IF validateParameter(FALSE, "Maybe", FALSE) # "" THEN
                /\ ReportError(validateParameter(FALSE, "Maybe", FALSE))
                /\ pc' = "done"
                /\ UNCHANGED <<rld, m_messages, configLock>>
            ELSE IF failing # {} THEN
                \* std::get of the other alternative throws std::bad_variant_access; the lock is released while unwinding
                /\ m_messages' = [m_messages EXCEPT !.errors =
                        Append(@, Msg("unable to consider dependencies", CHOOSE d \in failing : \A e \in failing : d <= e, 0))]
                /\ pc' = "threw"
                /\ configLock' = "none"
                /\ UNCHANGED <<rld, reportVars>>
            ELSE \E pulled \in {IF missing THEN {} ELSE
                        {dp \in (relevantDbs \ destinationDbs) \X PkgNames : cfg[dp[1]].packages[dp[2]].present}} :
                /\ m_messages' = IF missing /\ destinationDbs # {}
                                 THEN [m_messages EXCEPT !.warnings = Append(@, Msg("dependency missing", 0, 0))]
                                 ELSE m_messages
                /\ rld' = [rld EXCEPT !.dbOrder = order, !.relevantPkgs = pulled,
                                      !.relevant = [i \in 1..Len(order) |-> [name |-> order[i], packages |-> <<>>]]]
                /\ pc' = "collect"
                /\ configLock' = "read"
                /\ UNCHANGED reportVars
    /\ UNCHANGED <<inputVars, directory, aborted, movementVars, worldVars, cfg, repoDirs, cacheVars, toolVars>>

\* the next package the loop of run() looks at, from database number i and package name n on; i > Len(dbOrder) at the end
RECURSIVE nextPos(_, _)
nextPos(i, n) ==
    IF i > Len(rld.dbOrder) THEN <<i, 1>>
    ELSE IF n > MaxPkgs THEN nextPos(i + 1, 1)
    ELSE IF cfg[rld.dbOrder[i]].packages[n].present THEN <<i, n>>
    ELSE nextPos(i, n + 1)

\* LibPkg::lastModified(path): the binary package is as old as the analysis of an analysed package, or newer
ModificationTimes(package) == IF package.origin = "PackageContents" THEN {package.timestamp, package.timestamp + 1} ELSE {2}

\* a run that skips the packages analysed before whether or not their reload is forced
skipsUnmodifiedThoughForced(force, package, lastModified) ==
    package.origin = "PackageContents" /\ package.timestamp >= lastModified
\* the package info has already been loaded from package contents and the present binary package is not newer
skipsUnmodified(force, package, lastModified) ==
    ~force /\ package.origin = "PackageContents" /\ package.timestamp >= lastModified
\* the note "<db>/<package>: skipping because <path> is newer (<timestamp> >= <lastModified>)"
skippingBecauseNewer(d, n, timestamp, lastModified) ==
    [text |-> "skipping", db |-> d, pkg |-> n, timestamp |-> timestamp, lastModified |-> lastModified]

\* ReloadLibraryDependencies::run, one round of the loop over the packages of a relevant database
RldCollect ==
    /\ type = "ReloadLibraryDependencies" /\ pc = "collect"
    /\ LET pos == nextPos(rld.cdb, rld.cpkg)
           i == pos[1]
           n == pos[2]
           d == rld.dbOrder[i]
           package == cfg[d].packages[n]
           isDestinationDb == destinationDbs = {} \/ d \in destinationDbs
           advanced == [rld EXCEPT !.cdb = i, !.cpkg = n + 1]
       IN  /\ i <= Len(rld.dbOrder)
           /\ IF aborted THEN
                   /\ ReportAborted /\ pc' = "done" /\ configLock' = "none"
                   /\ UNCHANGED <<rld, m_messages>>
              ELSE /\ UNCHANGED <<reportVars, pc, configLock>>
                   /\ IF ~package.hasInfo THEN
                          /\ m_messages' = [m_messages EXCEPT !.errors = Append(@, Msg("no package info", d, n))]
                          /\ rld' = advanced
                      ELSE IF ~isDestinationDb /\ <<d, n>> \notin rld.relevantPkgs THEN
                          /\ rld' = [advanced EXCEPT !.skippingNote = TRUE]
                          /\ UNCHANGED m_messages
                      ELSE \E found \in {"local", "mirror", "none"}, mtime \in ModificationTimes(package) :
                          IF found = "none" THEN
                              /\ m_messages' = [m_messages EXCEPT !.errors =
                                      Append(@, Msg("binary package not found and no mirror configured", d, n))]
                              /\ rld' = advanced
                          ELSE IF found = "local" /\ skipsUnmodified("ForceReload" \in flags, package, mtime) THEN
                              /\ m_messages' = [m_messages EXCEPT !.notes =
                                      Append(@, skippingBecauseNewer(d, n, package.timestamp, mtime))]
                              /\ rld' = advanced
                          ELSE
                              /\ rld' = [advanced EXCEPT !.remaining = @ + 1,
                                    !.relevant[i].packages = Append(@,
                                        [name |-> n, url |-> found = "mirror",
                                         lastModified |-> IF found = "local" THEN mtime ELSE 0, taken |-> 0,
                                         info |-> [version |-> package.version, buildDate |-> package.buildDate,
                                                   origin |-> "Unknown", libprovides |-> {}, libdepends |-> {}]])]
                              /\ UNCHANGED m_messages
    /\ UNCHANGED <<inputVars, directory, aborted, movementVars, worldVars, cfg, repoDirs, cacheVars, toolVars>>

\* the packages to consider, as <<database number, package number>>
toConsider(relevant) == {ij \in (1..Len(relevant)) \X (1..MaxPkgs) : ij[2] <= Len(relevant[ij[1]].packages)}

\* ReloadLibraryDependencies::loadPackageInfoFromContents up to the start of the threads
RldLoadStart(r, messages) ==
    IF aborted THEN ReportAborted /\ pc' = "done" /\ rld' = r /\ m_messages' = messages
    ELSE \E concurrency \in 1..MaxWorkers :
        \* hardware_concurrency() - 1 threads and the calling thread
        /\ rld' = [r EXCEPT !.dbIt = 1, !.pkgIt = 1,
                             !.threads = [t \in 1..concurrency |-> [pc |-> "next", db |-> 0, pkg |-> 0]]]
        /\ pc' = "parse"
        /\ m_messages' = messages
        /\ UNCHANGED reportVars

\* ReloadLibraryDependencies::run after the loop, with downloadPackagesFromMirror
\* a run that keeps the lock obtained from init() while the packages are downloaded and parsed
keepConfigReadLock == configLock' = configLock
\* configReadLock = std::monostate{}: the lock obtained from init() is released
resetConfigReadLock == configLock' = "none"

RldCollectDone ==
    /\ type = "ReloadLibraryDependencies" /\ pc = "collect"
    /\ nextPos(rld.cdb, rld.cpkg)[1] > Len(rld.dbOrder)
    /\ resetConfigReadLock
    /\ LET messages == IF rld.skippingNote
                       THEN [m_messages EXCEPT !.notes = Append(@, Msg("not required by any destination DB", 0, 0))]
                       ELSE m_messages
           r == [rld EXCEPT !.skippingNote = FALSE, !.cdb = Len(rld.dbOrder) + 1, !.cpkg = 1]
           packagesWhichNeedCaching == {ij \in toConsider(rld.relevant) : rld.relevant[ij[1]].packages[ij[2]].url}
       IN  IF rld.relevant = <<>> \/ rld.remaining = 0 THEN
               RldConcludeNow(messages) /\ pc' = "done" /\ rld' = r
           ELSE IF packagesWhichNeedCaching = {} THEN RldLoadStart(r, messages)
           ELSE IF aborted THEN ReportAborted /\ pc' = "done" /\ rld' = r /\ m_messages' = messages
           ELSE /\ pc' = "download" /\ rld' = r /\ m_messages' = messages
                /\ UNCHANGED reportVars
    /\ UNCHANGED <<inputVars, directory, aborted, movementVars, worldVars, cfg, repoDirs, cacheVars, toolVars>>

\* the caching session has finished and calls loadPackageInfoFromContents
RldDownloaded ==
    /\ type = "ReloadLibraryDependencies" /\ pc = "download"
    /\ \E errs \in SUBSET {ij \in toConsider(rld.relevant) : rld.relevant[ij[1]].packages[ij[2]].url} :
        RldLoadStart([rld EXCEPT !.cachingErrors = errs], m_messages)
    /\ UNCHANGED <<inputVars, directory, aborted, configLock, movementVars, worldVars, cfg, repoDirs, cacheVars, toolVars>>

\* a loop that gives up at the end of the packages of a database
advanceIteratorsWithinDb(relevant, dbIt, pkgIt) ==
    IF dbIt > Len(relevant) THEN <<dbIt, pkgIt>>
    ELSE IF pkgIt <= Len(relevant[dbIt].packages) THEN <<dbIt, pkgIt>>
    ELSE <<Len(relevant) + 1, pkgIt>>

\* the iterators after the while loop of processPackage: at a package, or dbIt at the end
RECURSIVE advanceIterators(_, _, _)
advanceIterators(relevant, dbIt, pkgIt) ==
    IF dbIt > Len(relevant) THEN <<dbIt, pkgIt>>
    ELSE IF pkgIt <= Len(relevant[dbIt].packages) THEN <<dbIt, pkgIt>>
    ELSE IF dbIt + 1 > Len(relevant) THEN <<dbIt + 1, pkgIt>>
    ELSE advanceIterators(relevant, dbIt + 1, 1)

\* processPackage: a thread gets the next package under nextPackageMutex, or returns
RldNextPackage(t) ==
    /\ type = "ReloadLibraryDependencies" /\ pc = "parse"
    /\ t \in DOMAIN rld.threads /\ rld.threads[t].pc = "next"
    /\ LET it == advanceIterators(rld.relevant, rld.dbIt, rld.pkgIt) IN
        IF aborted THEN rld' = [rld EXCEPT !.threads[t].pc = "finished"]
        ELSE IF it[1] > Len(rld.relevant) THEN
            rld' = [rld EXCEPT !.dbIt = it[1], !.pkgIt = it[2], !.threads[t].pc = "finished"]
        ELSE rld' = [rld EXCEPT !.dbIt = it[1], !.pkgIt = it[2] + 1,
                                !.threads[t] = [pc |-> "parse", db |-> it[1], pkg |-> it[2]],
                                !.relevant[it[1]].packages[it[2]].taken = @ + 1]
    /\ UNCHANGED <<inputVars, directory, reportVars, aborted, pc, configLock, m_messages, movementVars, worldVars,
                   cfg, repoDirs, cacheVars, toolVars>>

\* an emplace_back that is not protected against the one of another thread: the error appended before is lost
submitErrorUnprotected(errors, msg) == IF errors = <<>> THEN <<msg>> ELSE Append(SubSeq(errors, 1, Len(errors) - 1), msg)
\* m_messages.errors.emplace_back(...) while holding submitErrorMutex
submitError(errors, msg) == Append(errors, msg)

\* processPackage: a thread handles the package it got (caching error, or walkThroughArchive)
RldParse(t) ==
    /\ type = "ReloadLibraryDependencies" /\ pc = "parse"
    /\ t \in DOMAIN rld.threads /\ rld.threads[t].pc = "parse"
    /\ LET i == rld.threads[t].db
           j == rld.threads[t].pkg
           currentPkg == rld.relevant[i].packages[j]
           d == rld.relevant[i].name
           next == [rld EXCEPT !.threads[t] = [pc |-> "next", db |-> 0, pkg |-> 0], !.remaining = @ - 1]
       IN  IF currentPkg.url /\ <<i, j>> \in rld.cachingErrors THEN
                /\ m_messages' = [m_messages EXCEPT !.errors = submitError(@, Msg("caching error", d, currentPkg.name))]
                /\ rld' = next
           ELSE \E parsed \in BOOLEAN :
                IF parsed THEN
                    \* addInfoFromPkgInfoFile: the .PKGINFO states the version and build date the database was built from
                    /\ rld' = [next EXCEPT !.relevant[i].packages[j].info =
                            [version |-> @.version, buildDate |-> @.buildDate, origin |-> "PackageContents",
                             libprovides |-> Libs, libdepends |-> Libs]]
                    /\ UNCHANGED m_messages
                ELSE
                    /\ m_messages' = [m_messages EXCEPT !.errors = submitError(@, Msg("parse error", d, currentPkg.name))]
                    /\ rld' = next
    /\ UNCHANGED <<inputVars, directory, reportVars, aborted, pc, configLock, movementVars, worldVars,
                   cfg, repoDirs, cacheVars, toolVars>>

\* a write-back that puts the parsed packages the database does not hold into it
writeBackAddingPackages(db, packages, j) ==
    [db EXCEPT !.packages = [n \in PkgNames |->
        IF ~@[n].present /\ \E i \in j..Len(packages) : packages[i].name = n /\ packages[i].info.origin = "PackageContents"
        THEN FreshPackage(1, 0) ELSE @[n]]]
\* loadPackageInfoFromContents, "store the information in the database": the packages of one relevant database, from j on
RECURSIVE writeBackPackages(_, _, _)
writeBackPackages(db, packages, j) ==
    IF j > Len(packages) THEN db
    ELSE LET package == packages[j]
             existingPackage == db.packages[package.name]
             removed == removePackageDependencies(db, package.name)
             merge == addDepsAndProvidesFromOtherPackage(existingPackage, package.info)
             updated == [merge[2] EXCEPT !.timestamp = Max(@, package.lastModified)]
         IN  IF package.info.origin # "PackageContents" THEN writeBackPackages(db, packages, j + 1)
             ELSE IF ~existingPackage.present THEN writeBackPackages(db, packages, j + 1)
             ELSE IF ~merge[1] THEN writeBackPackages(removed, packages, j + 1)
             ELSE writeBackPackages(
                    addPackageDependencies([removed EXCEPT !.packages[package.name] = updated], package.name),
                    packages, j + 1)

\* the databases after the write-back
writeBack(config, relevant) ==
    [d \in DbNames |->
        IF config[d].exists /\ \E i \in 1..Len(relevant) : relevant[i].name = d
        THEN writeBackPackages(config[d], relevant[CHOOSE i \in 1..Len(relevant) : relevant[i].name = d].packages, 1)
        ELSE config[d]]

\* a main thread that does not wait for the workers
joinedNone(threads) == TRUE
\* for (std::thread &t : threads) t.join(), after processPackage() has returned in the calling thread
joinedAll(threads) == \A t \in DOMAIN threads : threads[t].pc = "finished"

\* loadPackageInfoFromContents after the threads were joined: m_setup.config.lockToWrite()
RldLockToWrite ==
    /\ type = "ReloadLibraryDependencies" /\ pc = "parse"
    /\ joinedAll(rld.threads)
    /\ configLock' = "write"
    /\ pc' = "writeBack"
    /\ UNCHANGED <<inputVars, directory, reportVars, aborted, m_messages, movementVars, worldVars, cfg, rld, repoDirs, cacheVars, toolVars>>

\* loadPackageInfoFromContents, the write-back under the write lock, up to configWritelock.unlock()
RldWriteBack ==
    /\ type = "ReloadLibraryDependencies" /\ pc = "writeBack"
    /\ cfg' = writeBack(cfg, rld.relevant)
    /\ configLock' = "none"
    /\ pc' = "conclude"
    /\ UNCHANGED <<inputVars, directory, reportVars, aborted, m_messages, movementVars, worldVars, rld, repoDirs, cacheVars, toolVars>>

\* ReloadLibraryDependencies::conclude, called at the end of loadPackageInfoFromContents
RldConclude ==
    /\ type = "ReloadLibraryDependencies" /\ pc = "conclude"
    /\ RldConcludeNow(m_messages)
    /\ pc' = "done"
    /\ UNCHANGED <<inputVars, directory, aborted, configLock, movementVars, worldVars, cfg, rld, repoDirs, cacheVars, toolVars>>

\* another action changes the Config while ReloadLibraryDependencies holds no lock on it
ConfigChangeWhileParsing ==
    /\ type = "ReloadLibraryDependencies" /\ pc = "parse" /\ configLock = "none"
    /\ rld.changes < MaxChanges
    /\ rld' = [rld EXCEPT !.changes = @ + 1]
    /\ \E d \in DbNames, change \in {"update", "remove", "discard"} :
        /\ cfg[d].exists
        \* the change concerns the first package of the database
        /\ cfg' = [cfg EXCEPT ![d] = CASE change = "update" -> updatePackage(@, 1, FreshPackage(2, 2))
                                       [] change = "remove" -> removePackage(@, 1)
                                       [] OTHER -> [@ EXCEPT !.exists = FALSE]]
    /\ UNCHANGED <<inputVars, directory, reportVars, aborted, pc, configLock, m_messages, movementVars, worldVars,
                   repoDirs, cacheVars, toolVars>>

\* the change as the write-back finds it: the workers do not touch the Config, so the change is taken at the
\* latest, when all of them have finished
ConfigChange ==
    /\ \A t \in DOMAIN rld.threads : rld.threads[t].pc = "finished"
    /\ ConfigChangeWhileParsing

\* ------------------------------------------------- CleanRepository (spec 4.9)
\* the file names a repository directory can hold: the package name and version fileNameComponents finds
\* (pkg = 0: it throws) and which of the substrings the classification searches the name contains
FileCatalog == <<
    [pkg |-> 0, ver |-> 0, parts |-> {".db"}],
    [pkg |-> 0, ver |-> 0, parts |-> {".files"}],
    [pkg |-> 0, ver |-> 0, parts |-> {}],
    [pkg |-> 0, ver |-> 0, parts |-> {".src"}],
    [pkg |-> 1, ver |-> 1, parts |-> {".pkg"}],
    [pkg |-> 1, ver |-> 2, parts |-> {".pkg"}] >>
FileNames == 1..Len(FileCatalog)
contains(f, part) == part \in FileCatalog[f].parts

\* a scan that warns about an entry without file name but does not take the file as referenced
RECURSIVE scanWithoutProtecting(_, _, _, _, _)
scanWithoutProtecting(f, relevantDbs, k, fileStillReferenced, warnings) ==
    IF k > Len(relevantDbs) THEN [referenced |-> fileStillReferenced, warnings |-> warnings]
    ELSE LET pkg == cfg[relevantDbs[k]].packages[FileCatalog[f].pkg] IN
         IF ~pkg.present THEN scanWithoutProtecting(f, relevantDbs, k + 1, fileStillReferenced, warnings)
         ELSE IF ~pkg.hasInfo \/ pkg.fileName = 0 THEN
            scanWithoutProtecting(f, relevantDbs, k + 1, fileStillReferenced,
                Append(warnings, Msg("Database entry misses the file name", relevantDbs[k], f)))
         ELSE IF pkg.fileName = f THEN [referenced |-> TRUE, warnings |-> warnings]
         ELSE scanWithoutProtecting(f, relevantDbs, k + 1, fileStillReferenced, warnings)

\* CleanRepository::run, the loop over the relevant databases for a package file, from database number k on
RECURSIVE scanRelevantDbs(_, _, _, _, _)
scanRelevantDbs(f, relevantDbs, k, fileStillReferenced, warnings) ==
    IF k > Len(relevantDbs) THEN [referenced |-> fileStillReferenced, warnings |-> warnings]
    ELSE LET pkg == cfg[relevantDbs[k]].packages[FileCatalog[f].pkg] IN
         IF ~pkg.present THEN scanRelevantDbs(f, relevantDbs, k + 1, fileStillReferenced, warnings)
         ELSE IF ~pkg.hasInfo \/ pkg.fileName = 0 THEN
            scanRelevantDbs(f, relevantDbs, k + 1, TRUE,
                Append(warnings, Msg("Database entry misses the file name", relevantDbs[k], f)))
         ELSE IF pkg.fileName = f THEN [referenced |-> TRUE, warnings |-> warnings]
         ELSE scanRelevantDbs(f, relevantDbs, k + 1, fileStillReferenced, warnings)

\* a classification that does not skip the database files
classifyDbFilesToo(f, relevantDbs) ==
    IF ~contains(f, ".pkg") /\ ~contains(f, ".src") THEN [class |-> "delete", warnings |-> <<>>]
    ELSE IF FileCatalog[f].pkg = 0 THEN
        [class |-> "keep", warnings |-> <<Msg("Unable to parse package name", 0, f)>>]
    ELSE LET scan == scanRelevantDbs(f, relevantDbs, 1, FALSE, <<>>) IN
         [class |-> IF scan.referenced THEN "keep" ELSE "archive", warnings |-> scan.warnings]
\* CleanRepository::run, the classification of one file of a repository directory
classify(f, relevantDbs) ==
    IF contains(f, ".db") \/ contains(f, ".files") THEN [class |-> "keep", warnings |-> <<>>]
    ELSE IF ~contains(f, ".pkg") /\ ~contains(f, ".src") THEN [class |-> "delete", warnings |-> <<>>]
    ELSE IF FileCatalog[f].pkg = 0 THEN
        [class |-> "keep", warnings |-> <<Msg("Unable to parse package name", 0, f)>>]
    ELSE LET scan == scanRelevantDbs(f, relevantDbs, 1, FALSE, <<>>) IN
         [class |-> IF scan.referenced THEN "keep" ELSE "archive", warnings |-> scan.warnings]

\* the classification of the files of a directory, in the order of the file names
RECURSIVE classifyFiles(_, _, _)
classifyFiles(dir, files, acc) ==
    IF files = <<>> THEN acc
    ELSE LET c == classify(files[1], dir.relevantDbs) IN
         classifyFiles(dir, Tail(files),
            [toDelete |-> IF c.class = "delete" THEN Append(acc.toDelete, files[1]) ELSE acc.toDelete,
             toArchive |-> IF c.class = "archive" THEN Append(acc.toArchive, files[1]) ELSE acc.toArchive,
             warnings |-> acc.warnings \o c.warnings])

\* the repository directories run() can find: the arch-specific one and possibly an "any" or "src" directory
\* beside it, with at most MaxFiles files in all, or both of them without files
FileSets == {F \in SUBSET FileNames : Cardinality(F) <= MaxFiles}
RepoDirChoices ==
    {<<[type |-> "ArchSpecific", files |-> a]>> : a \in FileSets}
    \cup {<<[type |-> "ArchSpecific", files |-> ab[1]], [type |-> t, files |-> ab[2]]>> :
            ab \in {x \in FileSets \X FileSets : Cardinality(x[1]) + Cardinality(x[2]) <= MaxFiles},
            t \in {"Any", "Src"}}
    \cup {<<[type |-> "ArchSpecific", files |-> a], [type |-> "Any", files |-> {}], [type |-> "Src", files |-> {}]>> :
            a \in FileSets}

\* the warnings of all directories, from directory i on
RECURSIVE classificationWarnings(_, _, _)
classificationWarnings(dirs, relevantDbs, i) ==
    IF i > Len(dirs) THEN <<>>
    ELSE classifyFiles([relevantDbs |-> relevantDbs], SortedSeq(dirs[i].files),
            [toDelete |-> <<>>, toArchive |-> <<>>, warnings |-> <<>>]).warnings
         \o classificationWarnings(dirs, relevantDbs, i + 1)

\* a handler that derives the result from m_messages after they were moved into the resultData, as the end of run() does
CleanHandleFatalErrorAsRun(messages) ==
    /\ configLock' = "none"
    /\ resultData' = [kind |-> "messages", data |-> messages]
    /\ m_messages' = NoMessages
    /\ buildingLock' = TRUE
    /\ ReportResult(IF NoMessages.errors = <<>> THEN "Success" ELSE "Failure")
\* CleanRepository::handleFatalError
CleanHandleFatalError(messages) ==
    /\ configLock' = "none"
    /\ resultData' = [kind |-> "messages", data |-> messages]
    /\ m_messages' = NoMessages
    /\ buildingLock' = TRUE
    /\ ReportResult("Failure")

\* addAnyAndSrcDir for the databases from number k on: an error for every "any" and "src" directory that is not there
RECURSIVE addAnyAndSrcDir(_, _, _)
addAnyAndSrcDir(dbs, dirs, k) ==
    IF k > Len(dbs) THEN <<>>
    ELSE (IF \E i \in 1..Len(dirs) : dirs[i].type = "Any" THEN <<>>
          ELSE <<Msg("Unable to consider \"any\" dir", dbs[k], 0)>>)
         \o (IF \E i \in 1..Len(dirs) : dirs[i].type = "Src" THEN <<>>
             ELSE <<Msg("Unable to consider \"src\" dir", dbs[k], 0)>>)
         \o addAnyAndSrcDir(dbs, dirs, k + 1)

\* the errors after which run() calls handleFatalError
FatalErrors == {"Unable consider \"arch-specific\" dir", "Unable consider find repositories next to",
                "Unable read database file in repo dir", "Unable to associate a database with repo dir"}

\* CleanRepository::run up to the release of the Config lock: finding the directories, classifying their files
CleanRepositoryRun ==
    /\ type = "CleanRepository" /\ pc = "run"
    /\ LET err == validateParameter(FALSE, "OneOrMore", FALSE) IN
        IF err # "" THEN
            /\ ReportError(err) /\ pc' = "done" /\ configLock' = "none"
            /\ UNCHANGED <<m_messages, repoDirs>>
        ELSE \E fatalError \in FatalErrors \cup {""}, dirs \in RepoDirChoices,
                order \in {SortedSeq(destinationDbs), Reverse(SortedSeq(destinationDbs))} :
            LET found == [m_messages EXCEPT !.errors = @ \o addAnyAndSrcDir(order, dirs, 1)] IN
            IF fatalError # "" THEN
                /\ CleanHandleFatalError([found EXCEPT !.errors = Append(@, Msg(fatalError, 0, 0))])
                /\ pc' = "done"
                /\ UNCHANGED repoDirs
            ELSE
                /\ repoDirs' = [i \in 1..Len(dirs) |->
                        LET c == classifyFiles([relevantDbs |-> order], SortedSeq(dirs[i].files),
                                    [toDelete |-> <<>>, toArchive |-> <<>>, warnings |-> <<>>])
                        IN  [type |-> dirs[i].type, files |-> dirs[i].files, relevantDbs |-> order,
                             toDelete |-> c.toDelete, toArchive |-> c.toArchive]]
                /\ m_messages' = [found EXCEPT !.warnings = @ \o classificationWarnings(dirs, order, 1)]
                /\ configLock' = "none"
                /\ pc' = "fileOps"
                /\ UNCHANGED reportVars
    /\ UNCHANGED <<inputVars, directory, aborted, movementVars, worldVars, cfg, rld, cacheVars, toolVars>>

\* CleanRepository::run, "do the actual file system operations": the deletions of directory i, from entry k on
RECURSIVE deleteFiles(_, _, _, _, _)
deleteFiles(i, k, failing, messages, fs) ==
    IF k > Len(repoDirs[i].toDelete) THEN [messages |-> messages, fs |-> fs]
    ELSE LET f == repoDirs[i].toDelete[k]
             noted == [messages EXCEPT !.notes = Append(@, Msg("Deleted", i, f))]
         IN  IF "DryRun" \in flags THEN deleteFiles(i, k + 1, failing, noted, fs)
             ELSE IF <<i, f>> \in failing THEN
                deleteFiles(i, k + 1, failing, [messages EXCEPT !.errors = Append(@, Msg("Unable to delete", i, f))], fs)
             ELSE deleteFiles(i, k + 1, failing, noted, fs \cup {[op |-> "remove", path |-> Path("dir", i, f)]})

\* the same for the files to archive
RECURSIVE archiveFiles(_, _, _, _, _)
archiveFiles(i, k, failing, messages, fs) ==
    IF k > Len(repoDirs[i].toArchive) THEN [messages |-> messages, fs |-> fs]
    ELSE LET f == repoDirs[i].toArchive[k]
             noted == [messages EXCEPT !.notes = Append(@, Msg("Archived", i, f))]
         IN  IF "DryRun" \in flags THEN archiveFiles(i, k + 1, failing, noted, fs)
             ELSE IF <<i, f>> \in failing THEN
                archiveFiles(i, k + 1, failing, [messages EXCEPT !.errors = Append(@, Msg("Unable to archive", i, f))], fs)
             ELSE archiveFiles(i, k + 1, failing, noted, fs \cup {[op |-> "rename", path |-> Path("dir", i, f)]})

\* the loop over the repository directories, from directory i on; archiveDir[i] tells whether the archive
\* directory "exists", is "created" or cannot be created ("fail")
RECURSIVE fileOperations(_, _, _, _, _)
fileOperations(i, failing, archiveDir, messages, fs) ==
    IF i > Len(repoDirs) THEN [messages |-> messages, fs |-> fs]
    ELSE IF repoDirs[i].type = "Src" THEN fileOperations(i + 1, failing, archiveDir, messages, fs)
    ELSE LET deleted == deleteFiles(i, 1, failing, messages, fs) IN
         IF archiveDir[i] = "fail" THEN
            fileOperations(i + 1, failing, archiveDir,
                [deleted.messages EXCEPT !.errors = Append(@, Msg("Unable to create archive directory", i, 0))], deleted.fs)
         ELSE LET made == IF archiveDir[i] = "created"
                          THEN deleted.fs \cup {[op |-> "mkdir", path |-> Path("archive", i, 0)]} ELSE deleted.fs
                  archived == archiveFiles(i, 1, failing, deleted.messages, made)
              IN  fileOperations(i + 1, failing, archiveDir, archived.messages, archived.fs)

\* the files CleanRepository wants to delete or archive, as <<directory, file>>
flagged == {df \in (1..Len(repoDirs)) \X FileNames :
                df[2] \in Range(repoDirs[df[1]].toDelete) \cup Range(repoDirs[df[1]].toArchive)}

\* CleanRepository::run after the release of the Config lock: the file-system operations and the report
CleanRepositoryFileOps ==
    /\ type = "CleanRepository" /\ pc = "fileOps"
    /\ \E failing \in SUBSET flagged,
          archiveDir \in [1..Len(repoDirs) -> {"exists", "created", "fail"}] :
        \* outcomes of calls that are not made are not told apart
        /\ \A i \in 1..Len(repoDirs) : repoDirs[i].type = "Src" => archiveDir[i] = "exists"
        /\ "DryRun" \in flags => failing = {}
        /\ LET done == fileOperations(1, failing, archiveDir, m_messages, fsLog)
               movedFrom == NoMessages   \* m_messages after std::move(m_messages)
           IN  /\ fsLog' = done.fs
               /\ resultData' = [kind |-> "messages", data |-> done.messages]
               /\ m_messages' = movedFrom
               /\ buildingLock' = TRUE
               /\ ReportResult(IF movedFrom.errors = <<>> THEN "Success" ELSE "Failure")
    /\ pc' = "done"
    /\ UNCHANGED <<inputVars, directory, aborted, configLock, movementVars, launched, exited, cfg, rld, repoDirs, cacheVars, toolVars>>
\* ---------------------------------------------------- StorageCache (spec 4.3)
\* the entry objects of the client: object k is named EntryName(k); objects are told apart by their address
Objects == 1..MaxStores
EntryNames == 1..MaxNames
EntryName(k) == ((k - 1) % MaxNames) + 1
\* an object made by retrieve() with std::make_shared has an address no client object has
Loaded == 0
NoEntry == [obj |-> 0 - 1, val |-> AbsentPackage]
NoOp == [op |-> "none", name |-> 0, id |-> 0, entry |-> NoEntry, oldEntry |-> NoEntry, updated |-> FALSE, force |-> FALSE]

\* the ids under which the backing store holds an entry of the name, lowest first (index 0 of the table)
idsOfName(store, name) == {id \in 1..MaxId : store[id].present /\ store[id].name = name}
lowestId(ids) == CHOOSE id \in ids : \A other \in ids : id <= other
\* getMaxID
maxId(store) == IF \E id \in 1..MaxId : store[id].present
                THEN CHOOSE id \in 1..MaxId : store[id].present /\ \A other \in 1..MaxId : store[other].present => other <= id
                ELSE 0
NoRecord == [present |-> FALSE, name |-> 0, val |-> AbsentPackage]

\* txn.get<0>(name, entry): the id found (0: none) and the entry read
getByName(store, name) ==
    IF idsOfName(store, name) = {} THEN [id |-> 0, val |-> AbsentPackage]
    ELSE [id |-> lowestId(idsOfName(store, name)), val |-> store[lowestId(idsOfName(store, name))].val]

\* txn.put(entry, id): the id written (a new one for id = 0) and the store afterwards
put(store, name, val, id) ==
    LET written == IF id = 0 THEN maxId(store) + 1 ELSE id IN
    [id |-> written, store |-> [store EXCEPT ![written] = [present |-> TRUE, name |-> name, val |-> val]]]

\* m_entries.relocate(m_entries.begin(), i)
relocate(entries, i) == <<entries[i]>> \o RemoveAt(entries, i)

\* StorageCacheEntries::find: the position of the entry (0: none); a hit moves the entry to the front
findByName(entries, name) ==
    IF \E i \in 1..Len(entries) : entries[i].name = name
    THEN CHOOSE i \in 1..Len(entries) : entries[i].name = name ELSE 0
findById(entries, id) ==
    IF \E i \in 1..Len(entries) : entries[i].id = id
    THEN CHOOSE i \in 1..Len(entries) : entries[i].id = id ELSE 0

\* an insert that never drops the last entry
insertWithoutLimit(entries, e) ==
    LET clash == {i \in 1..Len(entries) : entries[i].name = e.name \/ entries[i].id = e.id} IN
    IF clash # {} THEN relocate(entries, CHOOSE i \in clash : \A j \in clash : i <= j)
    ELSE <<e>> \o entries
\* StorageCacheEntries::insert: the entries afterwards; an entry of the same name or id keeps its place in the
\* indices and is moved to the front, otherwise the new entry is put in front and the last one dropped over the limit
insert(entries, e) ==
    LET clash == {i \in 1..Len(entries) : entries[i].name = e.name \/ entries[i].id = e.id} IN
    IF clash # {} THEN relocate(entries, CHOOSE i \in clash : \A j \in clash : i <= j)
    ELSE IF Len(entries) + 1 > Limit THEN SubSeq(<<e>> \o entries, 1, Len(entries))
    ELSE <<e>> \o entries

cacheFrame == UNCHANGED <<actionVars, toolVars>>

\* the read-write transaction of a store() that has not returned yet: where store() is, the entry object it
\* stores, whether find() gave it a cache entry (and whether that entry was dropped since), and the packages
\* table as the transaction sees it
NoTxn == [pc |-> "idle", k |-> 0, force |-> FALSE, id |-> 0, cached |-> FALSE, dangling |-> FALSE,
          oldEntry |-> NoEntry, store |-> [id \in 1..MaxId |-> NoRecord]]

\* a store() that returns early whenever the cached entry is the given object, forced or not
storeIsNoOpIgnoringForce(cachedObj, k, force) == cachedObj = k
\* cacheEntry->entry == entry && !force: the shared pointers are compared, not the entries
storeIsNoOp(cachedObj, k, force) == cachedObj = k /\ ~force

\* StorageCache::retrieve(storage, entryName)
Retrieve(name) ==
    /\ LET i == findByName(cache, name)
           got == getByName(backing, name)
           loaded == [obj |-> Loaded, val |-> got.val]
       IN  IF i # 0 THEN
               /\ cache' = relocate(cache, i)
               /\ lastOp' = [NoOp EXCEPT !.op = "retrieve", !.name = name, !.id = cache[i].id, !.entry = cache[i].entry]
           ELSE IF got.id # 0 THEN
               /\ cache' = insert(cache, [name |-> name, id |-> got.id, entry |-> loaded])
               /\ lastOp' = [NoOp EXCEPT !.op = "retrieve", !.name = name, !.id = got.id, !.entry = loaded]
           ELSE
               /\ lastOp' = [NoOp EXCEPT !.op = "retrieve", !.name = name]
               /\ UNCHANGED cache
    /\ UNCHANGED <<backing, heap>>
    /\ cacheFrame

\* StorageCache::retrieve(storage, storageID)
RetrieveById(id) ==
    /\ LET i == findById(cache, id)
           loaded == [obj |-> Loaded, val |-> backing[id].val]
       IN  IF i # 0 THEN
               /\ cache' = relocate(cache, i)
               /\ lastOp' = [NoOp EXCEPT !.op = "retrieveById", !.name = cache[i].name, !.id = cache[i].id,
                                         !.entry = cache[i].entry]
           ELSE IF backing[id].present THEN
               /\ cache' = insert(cache, [name |-> backing[id].name, id |-> id, entry |-> loaded])
               /\ lastOp' = [NoOp EXCEPT !.op = "retrieveById", !.name = backing[id].name, !.id = id, !.entry = loaded]
           ELSE
               /\ lastOp' = [NoOp EXCEPT !.op = "retrieveById"]
               /\ UNCHANGED cache
    /\ UNCHANGED <<backing, heap>>
    /\ cacheFrame

\* StorageCache::store(storage, entry, force): entry is the client's object k
Store(k, force) ==
    LET name == EntryName(k)
        i == findByName(cache, name)
        got == getByName(backing, name)
        cached == i # 0
        oldEntry == IF cached THEN cache[i].entry
                    ELSE IF got.id # 0 THEN [obj |-> Loaded, val |-> got.val] ELSE NoEntry
        \* the id of an entry found in the backing store only is dropped
        id == IF cached THEN cache[i].id ELSE 0
        merged == IF oldEntry = NoEntry THEN heap[k] ELSE addDepsAndProvidesFromOtherPackage(heap[k], oldEntry.val)[2]
        written == put(backing, name, merged, id)
        entry == [obj |-> k, val |-> merged]
        inserted == IF cached THEN relocate(cache, i) ELSE insert(cache, [name |-> name, id |-> written.id, entry |-> entry])
    IN  /\ IF cached /\ storeIsNoOp(cache[i].entry.obj, k, force) THEN
               /\ cache' = relocate(cache, i)
               /\ lastOp' = [NoOp EXCEPT !.op = "store", !.name = name, !.id = id, !.entry = entry, !.oldEntry = oldEntry,
                                         !.force = force]
               /\ UNCHANGED <<backing, heap>>
           ELSE
               /\ id = 0 => maxId(backing) < MaxId
               /\ heap' = [heap EXCEPT ![k] = merged]
               /\ backing' = written.store
               /\ cache' = [inserted EXCEPT ![1].entry = entry]
               /\ lastOp' = [NoOp EXCEPT !.op = "store", !.name = name, !.id = written.id, !.entry = entry,
                                         !.oldEntry = oldEntry, !.updated = TRUE, !.force = force]
        /\ cacheFrame

\* StorageCache::invalidate(storage, entryName)
Invalidate(name) ==
    /\ cache' = SelectSeq(cache, LAMBDA e : e.name # name)
    /\ LET ids == idsOfName(backing, name) IN
           /\ backing' = IF ids = {} THEN backing ELSE [backing EXCEPT ![lowestId(ids)] = NoRecord]
           /\ lastOp' = [NoOp EXCEPT !.op = "invalidate", !.name = name, !.updated = ids # {}]
    /\ UNCHANGED heap
    /\ cacheFrame

\* StorageCache::clearCacheOnly(storage)
ClearCacheOnly ==
    /\ cache' = <<>>
    /\ lastOp' = [NoOp EXCEPT !.op = "clearCacheOnly"]
    /\ UNCHANGED <<backing, heap>>
    /\ cacheFrame

\* StorageCache::clear(storage)
Clear ==
    /\ cache' = <<>>
    /\ backing' = [id \in 1..MaxId |-> NoRecord]
    /\ lastOp' = [NoOp EXCEPT !.op = "clear"]
    /\ UNCHANGED heap
    /\ cacheFrame

\* StorageCache::store(storage, entry, force) while other threads use the cache, in the three steps between
\* which m_mutex is free.  First step: the cache lookup under the lock, then the transaction is opened and
\* the entry put into it.
StoreBegin(k, force) ==
    LET name == EntryName(k)
        i == findByName(cache, name)
        got == getByName(backing, name)
        cached == i # 0
        oldEntry == IF cached THEN cache[i].entry
                    ELSE IF got.id # 0 THEN [obj |-> Loaded, val |-> got.val] ELSE NoEntry
        id == IF cached THEN cache[i].id ELSE 0
        merged == IF oldEntry = NoEntry THEN heap[k] ELSE addDepsAndProvidesFromOtherPackage(heap[k], oldEntry.val)[2]
        written == put(backing, name, merged, id)
    IN  /\ txn.pc = "idle"
        /\ IF cached /\ storeIsNoOp(cache[i].entry.obj, k, force) THEN
               /\ cache' = relocate(cache, i)
               /\ lastOp' = [NoOp EXCEPT !.op = "store", !.name = name, !.id = id,
                                         !.entry = [obj |-> k, val |-> merged], !.oldEntry = oldEntry,
                                         !.force = force]
               /\ UNCHANGED <<backing, heap, txn>>
           ELSE
               /\ id = 0 => maxId(backing) < MaxId
               /\ heap' = [heap EXCEPT ![k] = merged]
               /\ cache' = IF cached THEN relocate(cache, i) ELSE cache
               /\ txn' = [pc |-> "put", k |-> k, force |-> force, id |-> written.id, cached |-> cached,
                          dangling |-> FALSE, oldEntry |-> oldEntry, store |-> written.store]
               /\ UNCHANGED <<backing, lastOp>>
        /\ cacheFrame

\* second step: the cache entry is set to the entry under the lock.  cacheEntry is the pointer find() gave in the
\* first step; writing through it after the entry was dropped is undefined: the write is lost or the process ends
StoreUpdateCache ==
    /\ txn.pc = "put"
    /\ LET name == EntryName(txn.k)
           entry == [obj |-> txn.k, val |-> heap[txn.k]]
           i == findByName(cache, name)
       IN  IF txn.cached /\ txn.dangling THEN
               \E outcome \in {"cached", "crashed"} :
                   /\ txn' = [txn EXCEPT !.pc = outcome]
                   /\ UNCHANGED cache
           ELSE
               /\ cache' = IF txn.cached THEN [cache EXCEPT ![i].entry = entry]
                           ELSE [insert(cache, [name |-> name, id |-> txn.id, entry |-> entry]) EXCEPT ![1].entry = entry]
               /\ txn' = [txn EXCEPT !.pc = "cached"]
    /\ UNCHANGED <<backing, heap, lastOp>>
    /\ cacheFrame

\* third step: txn.commit(), res.updated = true, return
StoreCommit ==
    /\ txn.pc = "cached"
    /\ backing' = txn.store
    /\ lastOp' = [NoOp EXCEPT !.op = "store", !.name = EntryName(txn.k), !.id = txn.id,
                              !.entry = [obj |-> txn.k, val |-> heap[txn.k]], !.oldEntry = txn.oldEntry,
                              !.updated = TRUE, !.force = txn.force]
    /\ txn' = NoTxn
    /\ UNCHANGED <<cache, heap>>
    /\ cacheFrame

\* what an operation of another thread does to the cache entry a store() in its second step still points to
dropsCacheEntry ==
    txn' = [txn EXCEPT !.dangling = txn.dangling \/
                (txn.pc = "put" /\ txn.cached /\ findByName(cache', EntryName(txn.k)) = 0)]

\* the calls of retrieve(storage, entryName) and invalidate(storage, entryName) that two other threads are in:
\* where each call is, the name it was given, what retrieve read from the storage and returned, whether it
\* began after an invalidate of its name had returned (late), whether a retrieve of its name was under way
\* during the invalidate (raced), and the names of which the last invalidate was such a one, with no store since
\* (what a retrieve returned is kept for the late ones only)
NoOps == [reader |-> [pc |-> "idle", name |-> 0, got |-> [id |-> 0, val |-> AbsentPackage], late |-> FALSE, id |-> 0],
          inv |-> [pc |-> "idle", name |-> 0, raced |-> FALSE],
          raced |-> {}]

\* the record of a retrieve() that has returned id
returned(call, id) == IF call.late THEN [call EXCEPT !.pc = "idle", !.got = NoOps.reader.got, !.id = id] ELSE NoOps.reader

\* a store() that runs while neither of the two calls is under way
StoreAlone(k) ==
    /\ ops.reader.pc = "idle" /\ ops.inv.pc = "idle"
    /\ Store(k, FALSE)
    /\ ops' = [ops EXCEPT !.raced = @ \ {EntryName(k)}]
    /\ UNCHANGED txn

\* retrieve(storage, entryName), first step: the cache lookup under m_mutex; a hit returns
RetrieveBegin(name) ==
    /\ ops.reader.pc = "idle"
    /\ LET i == findByName(cache, name)
           racing == ops.inv.pc # "idle" /\ ops.inv.name = name
           late == name \in ops.raced /\ ~racing
           call == [pc |-> "read", name |-> name, got |-> NoOps.reader.got, late |-> late, id |-> 0]
       IN  IF i # 0 THEN
               /\ cache' = relocate(cache, i)
               /\ lastOp' = [NoOp EXCEPT !.op = "retrieve", !.name = name, !.id = cache[i].id, !.entry = cache[i].entry]
               /\ ops' = [ops EXCEPT !.reader = returned(call, cache[i].id), !.inv.raced = @ \/ racing]
           ELSE
               /\ ops' = [ops EXCEPT !.reader = call, !.inv.raced = @ \/ racing]
               /\ UNCHANGED <<cache, lastOp>>
    /\ UNCHANGED <<backing, heap, txn>>
    /\ cacheFrame

\* second step, without the lock: the read-only transaction and txn.get<0>; nothing found returns (0, none)
RetrieveRead ==
    /\ ops.reader.pc = "read"
    /\ LET got == getByName(backing, ops.reader.name) IN
        IF got.id # 0 THEN
            /\ ops' = [ops EXCEPT !.reader.pc = "insert", !.reader.got = got]
            /\ UNCHANGED lastOp
        ELSE
            /\ ops' = [ops EXCEPT !.reader = returned(@, 0)]
            /\ lastOp' = [NoOp EXCEPT !.op = "retrieve", !.name = ops.reader.name]
    /\ UNCHANGED <<cache, backing, heap, txn>>
    /\ cacheFrame

\* third step: the entry read is put into the cache under m_mutex and returned
RetrieveInsert ==
    /\ ops.reader.pc = "insert"
    /\ LET loaded == [obj |-> Loaded, val |-> ops.reader.got.val]
           name == ops.reader.name
       IN  /\ cache' = insert(cache, [name |-> name, id |-> ops.reader.got.id, entry |-> loaded])
           /\ lastOp' = [NoOp EXCEPT !.op = "retrieve", !.name = name, !.id = ops.reader.got.id, !.entry = loaded]
           /\ ops' = [ops EXCEPT !.reader = returned(@, ops.reader.got.id)]
    /\ UNCHANGED <<backing, heap, txn>>
    /\ cacheFrame

\* invalidate(storage, entryName), first step: m_entries.erase(ref) under m_mutex
InvalidateErase(name) ==
    /\ ops.inv.pc = "idle"
    /\ cache' = SelectSeq(cache, LAMBDA e : e.name # name)
    /\ ops' = [ops EXCEPT !.inv = [pc |-> "delete", name |-> name,
                                   raced |-> ops.reader.pc # "idle" /\ ops.reader.name = name],
                          !.raced = @ \ {name}]
    /\ UNCHANGED <<backing, heap, lastOp>>
    /\ cacheFrame

\* second step, without the lock: the read-write transaction that deletes the entry found under the name
InvalidateDelete ==
    /\ ops.inv.pc = "delete"
    /\ LET name == ops.inv.name
           ids == idsOfName(backing, name)
       IN  /\ backing' = IF ids = {} THEN backing ELSE [backing EXCEPT ![lowestId(ids)] = NoRecord]
           /\ lastOp' = [NoOp EXCEPT !.op = "invalidate", !.name = name, !.updated = ids # {}]
           /\ ops' = [ops EXCEPT !.inv.pc = "idle", !.raced = IF ops.inv.raced THEN @ \cup {name} ELSE @]
    /\ UNCHANGED <<cache, heap, txn>>
    /\ cacheFrame

\* the entries of the client: the first object of each name carries the libraries found in its contents
InitialHeap == [k \in Objects |-> IF k <= MaxNames THEN AnalysedPackage ELSE FreshPackage(1, 1)]

\* a build without packages, a client that was not started
NoBuild == [flags |-> {}, deps |-> <<>>, batch |-> 0, state |-> <<>>, started |-> <<>>, pc |-> "none"]
NoClient == [pc |-> "none", operation |-> "none", config |-> "ok", response |-> "ok", returnCode |-> 0, exit |-> 0 - 1]

\* -------------------------------------------------------- ConductBuild (spec 4.8)
\* the packages of build-preparation.json: package p is in batch batchOf(p) and depends on packages of the
\* batch before
BuildPackages == 1..(MaxBatches * BatchSize)
batchOf(p) == ((p - 1) \div BatchSize) + 1
packagesOfBatch(b) == {p \in BuildPackages : batchOf(p) = b}
BuildDependencies ==
    {d \in [BuildPackages -> SUBSET BuildPackages] :
        \A p \in BuildPackages : d[p] \subseteq packagesOfBatch(batchOf(p) - 1) /\ (batchOf(p) > 1 => d[p] # {})}
InitialBuilds ==
    {[flags |-> f, deps |-> d, batch |-> 1, state |-> [p \in BuildPackages |-> "pending"], started |-> <<>>,
      pc |-> "building"] : f \in SUBSET {"BuildAsFarAsPossible"}, d \in BuildDependencies}

\* the package of the current batch that is built next (0: none left), and whether a package is being built
nextPackage ==
    LET waiting == {p \in packagesOfBatch(build.batch) : build.state[p] = "pending"} IN
    IF waiting = {} THEN 0 ELSE CHOOSE p \in waiting : \A q \in waiting : p <= q
busy == \E p \in BuildPackages : build.state[p] = "building"
depsSucceeded(p) == \A d \in build.deps[p] : build.state[d] = "finished"

\* a build that goes on to the next batch whatever failed
neverStopBetweenBatches == FALSE
\* between batches: if any package failed and !BuildAsFarAsPossible, stop
stopBetweenBatches ==
    /\ \E p \in BuildPackages : build.state[p] = "failed"
    /\ "BuildAsFarAsPossible" \notin build.flags

conductFrame == UNCHANGED <<actionVars, cacheVars, client, lookups, options>>

\* the next package of the batch is started, or left out when a package it depends on did not succeed
ConductStartPackage ==
    /\ build.pc = "building" /\ ~busy /\ nextPackage # 0
    /\ build' = IF depsSucceeded(nextPackage)
                THEN [build EXCEPT !.state[nextPackage] = "building", !.started = Append(@, nextPackage)]
                ELSE [build EXCEPT !.state[nextPackage] = "skipped"]
    /\ conductFrame

\* the build of the package ends (steps a to e); its progress is persisted
ConductPackageDone ==
    /\ \E p \in BuildPackages, outcome \in {"finished", "failed"} :
        /\ build.state[p] = "building"
        /\ build' = [build EXCEPT !.state[p] = outcome]
    /\ conductFrame

\* between batches
ConductNextBatch ==
    /\ build.pc = "building" /\ ~busy /\ nextPackage = 0
    /\ build' = IF stopBetweenBatches THEN [build EXCEPT !.pc = "stopped"]
                ELSE IF build.batch < MaxBatches THEN [build EXCEPT !.batch = @ + 1]
                ELSE [build EXCEPT !.pc = "done"]
    /\ conductFrame

\* ------------------------------------------------------ the command-line client
\* what the client is started with: the operation on its command line, the state of its config file, and what
\* the server and the printer of the operation do with the request
InitialClients ==
    {[pc |-> "main", operation |-> o, config |-> c, response |-> r, returnCode |-> 0, exit |-> 0 - 1] :
        o \in {"none", "help", "search", "package"},
        c \in {"ok", "unreadable", "noUrl", "noPassword", "noUser"},
        r \in {"connectError", "httpError", "ok", "unparsable", "undisplayable"}}

clientFrame == UNCHANGED <<actionVars, cacheVars, build, lookups, options>>

\* main: the arguments are parsed; without operation there is no printer and main returns 0
ClientParseArgs ==
    /\ client.pc = "main"
    /\ client' = IF client.operation \in {"none", "help"} THEN [client EXCEPT !.pc = "exited", !.exit = 0]
                 ELSE [client EXCEPT !.pc = "config"]
    /\ clientFrame

\* main: ClientConfig::parse throws std::runtime_error for a config that cannot be read or lacks the url, the
\* user or the password, and main returns 10
ClientParseConfig ==
    /\ client.pc = "config"
    /\ client' = IF client.config # "ok" THEN [client EXCEPT !.pc = "exited", !.exit = 10]
                 ELSE [client EXCEPT !.pc = "request"]
    /\ clientFrame

\* handleResponse, called with the response while main is in ioContext.run()
handleResponse(returnCode) ==
    CASE client.response = "unparsable" -> 11
      [] client.response = "undisplayable" -> 12
      [] OTHER -> returnCode
ClientHandleResponse ==
    /\ client.pc = "request"
    /\ client' = [client EXCEPT !.pc = "responded", !.returnCode = handleResponse(@)]
    /\ clientFrame

\* main: ioContext.run() has returned; return 0
ClientReturn ==
    /\ client.pc = "responded"
    /\ client' = [client EXCEPT !.pc = "exited", !.exit = 0]
    /\ clientFrame

\* ------------------------------------------------- BuildActionMetaInfo (spec 4.10)
\* BuildActionMetaInfo::types: id and type of the entries, in the order of the table
types == <<
    [id |-> "Invalid", type |-> ""],
    [id |-> "RemovePackages", type |-> "remove-packages"],
    [id |-> "MovePackages", type |-> "move-packages"],
    [id |-> "CheckForUpdates", type |-> "check-updates"],
    [id |-> "ReloadDatabase", type |-> "reload-database"],
    [id |-> "ReloadLibraryDependencies", type |-> "reload-library-dependencies"],
    [id |-> "PrepareBuild", type |-> "prepare-build"],
    [id |-> "ConductBuild", type |-> "conduct-build"],
    [id |-> "MakeLicenseInfo", type |-> "make-license-info"],
    [id |-> "ReloadConfiguration", type |-> "reload-configuration"],
    [id |-> "CheckForProblems", type |-> "check-for-problems"],
    [id |-> "CleanRepository", type |-> "clean-repository"],
    [id |-> "DummyBuildAction", type |-> "dummy"],
    [id |-> "CustomCommand", type |-> "custom-command"] >>

\* mapByName(types, &BuildActionTypeMetaInfo::type): map.insert keeps the first element of a name
mapByName(elements) ==
    [name \in {elements[i].type : i \in 1..Len(elements)} |->
        CHOOSE i \in 1..Len(elements) :
            elements[i].type = name /\ \A j \in 1..Len(elements) : elements[j].type = name => i <= j]
m_typeInfoByName == mapByName(types)

\* typeInfoForId: types[static_cast<std::size_t>(id)], the ids of BuildActionType numbered in the order of the table
typeInfoForId(id) == types[CHOOSE i \in 1..Len(types) : types[i].id = id]

\* a lookup that knows no name
typeInfoForNoName(name) == typeInfoForId("Invalid")
\* BuildActionMetaInfo::typeInfoForName
typeInfoForName(name) ==
    IF name \in DOMAIN m_typeInfoByName THEN types[m_typeInfoByName[name]] ELSE typeInfoForId("Invalid")

\* the strings looked up: the type of every entry, and names that are the type of none
LookupNames ==
    {types[i].type : i \in 1..Len(types)} \cup {"Remove packages", "RemovePackages", "remove-package", "invalid", "Invalid"}

\* a caller looks a type up by its name
LookupType ==
    /\ Len(lookups) < MaxLookups
    /\ \E name \in LookupNames : lookups' = Append(lookups, [name |-> name, info |-> typeInfoForName(name)])
    /\ UNCHANGED <<actionVars, cacheVars, build, client, options>>

\* BuildActionTypeMetaInfo::flags: name and param of the flags of a type, in the order of the table
typeInfoFlags(id) ==
    CASE id = "ReloadLibraryDependencies" -> <<
            [name |-> "Force reload", param |-> "force-reload"],
            [name |-> "Skip dependencies", param |-> "skip-dependencies"] >>
      [] id = "PrepareBuild" -> <<
            [name |-> "Force-bump pkgrel", param |-> "force-bump-pkgrel"],
            [name |-> "Clean source directory", param |-> "clean-src-dir"],
            [name |-> "Keep dependency order", param |-> "keep-order"],
            [name |-> "Keep pkgrel/epoch", param |-> "keep-pkgrel-and-epoch"] >>
      [] id = "ConductBuild" -> <<
            [name |-> "Build as far as possible", param |-> "build-as-far-as-possible"],
            [name |-> "Save chroot of failures", param |-> "save-chroot-of-failures"],
            [name |-> "Update checksums", param |-> "update-checksums"],
            [name |-> "Auto-staging", param |-> "auto-staging"] >>
      [] id = "CleanRepository" -> << [name |-> "Dry run", param |-> "dry-run"] >>
      [] OTHER -> << >>

\* BuildActionTypeMetaInfo::settings: name and param of the settings of a type, in the order of the table
typeInfoSettings(id) ==
    CASE id = "PrepareBuild" -> << [name |-> "PKGBUILDs directory", param |-> "pkgbuilds-dir"] >>
      [] id = "ConductBuild" -> <<
            [name |-> "Chroot directory", param |-> "chroot-dir"],
            [name |-> "Chroot default user", param |-> "chroot-dir"],
            [name |-> "CCache directory", param |-> "ccache-dir"],
            [name |-> "Package cache directory", param |-> "pkg-cache-dir"],
            [name |-> "Test files directory", param |-> "test-files-dir"] >>
      [] id = "CustomCommand" -> << [name |-> "Command", param |-> "cmd"] >>
      [] OTHER -> << >>

\* BuildActionMetaInfo::states
states == <<
    [id |-> "Created", name |-> "Created"],
    [id |-> "Enqueued", name |-> "Enqueued"],
    [id |-> "AwaitingConfirmation", name |-> "Enqueued"],
    [id |-> "AwaitingConfirmation", name |-> "Awaiting confirmation"],
    [id |-> "Running", name |-> "Running"],
    [id |-> "Finished", name |-> "Finished"] >>

\* BuildActionMetaInfo::results
results == <<
    [id |-> "None", name |-> "None"],
    [id |-> "Success", name |-> "Success"],
    [id |-> "Failure", name |-> "Failure"],
    [id |-> "ConfirmationDeclined", name |-> "ConfirmationDeclined"],
    [id |-> "Aborted", name |-> "Aborted"] >>

\* mapByName(typeInfo.flags, &BuildActionFlagMetaInfo::param) and the same of the settings: map.insert keeps
\* the first element of a param
mapByParam(elements) ==
    [param \in {elements[i].param : i \in 1..Len(elements)} |->
        CHOOSE i \in 1..Len(elements) :
            elements[i].param = param /\ \A j \in 1..Len(elements) : elements[j].param = param => i <= j]

\* BuildActionTypeMetaMapping::BuildActionTypeMetaMapping
BuildActionTypeMetaMapping(id) ==
    [flagInfoByName |-> mapByParam(typeInfoFlags(id)), settingInfoByName |-> mapByParam(typeInfoSettings(id))]

\* a caller looks a flag of a type up by the param of the flag
LookupFlag ==
    /\ Len(lookups) < MaxLookups
    /\ \E t \in 1..Len(types) : \E e \in 1..Len(typeInfoFlags(types[t].id)) :
        LET id == types[t].id
            wanted == typeInfoFlags(id)[e] IN
        lookups' = Append(lookups, [table |-> "flags", type |-> id, wanted |-> wanted,
                                    found |-> typeInfoFlags(id)[BuildActionTypeMetaMapping(id).flagInfoByName[wanted.param]]])
    /\ UNCHANGED <<actionVars, cacheVars, build, client, options>>

\* a caller looks a setting of a type up by the param of the setting
LookupSetting ==
    /\ Len(lookups) < MaxLookups
    /\ \E t \in 1..Len(types) : \E e \in 1..Len(typeInfoSettings(types[t].id)) :
        LET id == types[t].id
            wanted == typeInfoSettings(id)[e] IN
        lookups' = Append(lookups, [table |-> "settings", type |-> id, wanted |-> wanted,
                                    found |-> typeInfoSettings(id)[BuildActionTypeMetaMapping(id).settingInfoByName[wanted.param]]])
    /\ UNCHANGED <<actionVars, cacheVars, build, client, options>>

\* ------------------------------------------------- BuildOrderOptions (spec 4.3)
\* enum BuildOrderOptions
BuildOrderOptions ==
    [None |-> 0, IncludeSourceOnlyDependencies |-> 2, IncludeAllDependencies |-> 3, ConsiderBuildDependencies |-> 4]

\* the bitwise | and & of two int
RECURSIVE bitOr(_, _)
bitOr(a, b) ==
    IF a = 0 THEN b ELSE IF b = 0 THEN a
    ELSE (IF a % 2 = 1 \/ b % 2 = 1 THEN 1 ELSE 0) + 2 * bitOr(a \div 2, b \div 2)
RECURSIVE bitAnd(_, _)
bitAnd(a, b) ==
    IF a = 0 \/ b = 0 THEN 0
    ELSE (IF a % 2 = 1 /\ b % 2 = 1 THEN 1 ELSE 0) + 2 * bitAnd(a \div 2, b \div 2)

\* operator|(BuildOrderOptions lhs, BuildOrderOptions rhs)
operatorOr(lhs, rhs) == bitOr(lhs, rhs)
\* operator&(BuildOrderOptions lhs, BuildOrderOptions rhs)
operatorAnd(lhs, rhs) == bitAnd(lhs, rhs) # 0

\* no option combined and no test made
NoOptions == [chosen |-> {}, opts |-> BuildOrderOptions.None, tests |-> <<>>]
\* the options a caller enables and tests
Options == {"IncludeSourceOnlyDependencies", "IncludeAllDependencies", "ConsiderBuildDependencies"}

\* a caller enables an option: opts = opts | X
CombineOptions ==
    /\ \E x \in Options \ options.chosen :
        options' = [options EXCEPT !.chosen = @ \cup {x}, !.opts = operatorOr(@, BuildOrderOptions[x])]
    /\ UNCHANGED <<actionVars, cacheVars, build, client, lookups>>

\* a caller tests an option: opts & X
TestOption ==
    /\ Len(options.tests) < MaxTests
    /\ \E x \in Options :
        options' = [options EXCEPT !.tests = Append(@, [chosen |-> options.chosen, opts |-> options.opts, x |-> x,
                                                        result |-> operatorAnd(options.opts, BuildOrderOptions[x])])]
    /\ UNCHANGED <<actionVars, cacheVars, build, client, lookups>>

\* ------------------------------------------------------------ the whole action
\* the packages the databases hold at the start, per database; only packages 1 and 2 of database 1 and
\* package 1 of database 2 vary
PackageChoices(t) ==
    LET none == [d \in DbNames |-> [n \in PkgNames |-> AbsentPackage]] IN
    IF t = "ReloadLibraryDependencies" THEN
        {[none EXCEPT ![1][1] = a, ![2][1] = FreshPackage(1, 3)] :
            a \in {FreshPackage(1, 1), AnalysedPackage, InfolessPackage}}
        \cup {[none EXCEPT ![1][1] = FreshPackage(1, 1), ![1][2] = FreshPackage(1, 2)]}
    ELSE IF t = "CleanRepository" THEN
        {[none EXCEPT ![1][1] = a, ![2][1] = c] :
            a \in {AbsentPackage, InfolessPackage, FreshPackage(1, 5)},
            c \in {InfolessPackage, FreshPackage(1, 5)}}
    ELSE {none}

\* the Config at the start: the last database may be missing
InitialConfigs(t) ==
    {[d \in DbNames |-> IF d \in existing THEN loadPackages(c[d]) ELSE [EmptyDatabase EXCEPT !.exists = FALSE]] :
        c \in PackageChoices(t), existing \in {DbNames, DbNames \ {MaxDbs}}}

\* create(type, ...): a BuildAction in Created
InitAction ==
    /\ type \in ActionTypes
    /\ flags \in (CASE type = "ReloadLibraryDependencies" -> SUBSET {"ForceReload", "SkipDependencies"}
                    [] type = "CleanRepository" -> SUBSET {"DryRun"}
                    [] OTHER -> {{}})
    /\ destinationDbs \in (IF type = "CustomCommand" THEN {{}} ELSE DbSubsets)
    /\ sourceDbs \in (IF type = "MovePackages" THEN {{}, {1}} ELSE {{}})
    /\ packageNames \in (IF type \in {"RemovePackages", "MovePackages"} THEN NameLists ELSE {<<>>})
    /\ directory \in (IF type = "CustomCommand" THEN {"", "dir"} ELSE {""})
    /\ command \in (IF type = "CustomCommand" THEN {"", "cmd"} ELSE {""})
    /\ status = "Created" /\ result = "None" /\ resultData = [kind |-> "string", text |-> ""]
    /\ reportCount = 0 /\ aborted = FALSE
    /\ pc = "created" /\ configLock = "none" /\ buildingLock = FALSE
    /\ m_messages = NoMessages
    /\ m_packageLocations = <<>> /\ m_result = NoMovementResult /\ m_addErrorMessage = ""
    /\ pending = {}
    /\ fsLog = {} /\ launched = {} /\ exited = {}
    /\ cfg \in InitialConfigs(type) /\ rld = InitialRld
    /\ repoDirs = <<>>
    /\ cache = <<>> /\ backing = [id \in 1..MaxId |-> NoRecord] /\ heap = InitialHeap /\ lastOp = NoOp /\ txn = NoTxn /\ ops = NoOps
Init == InitAction /\ build = NoBuild /\ client = NoClient /\ lookups = <<>> /\ options = NoOptions

Next ==
    \/ Enqueue
    \/ Start
    \/ Abort
    \/ RemovePackagesRun
    \/ RemoveHandleRepoRemoveResult
    \/ MovePackagesRun
    \/ MoveHandleRepoRemoveResult
    \/ MoveHandleRepoAddResult
    \/ MoveConclude
    \/ CustomCommandRun
    \/ CustomCommandHandleResult
    \/ CheckForProblemsRun
    \/ RldRun
    \/ RldCollect
    \/ RldCollectDone
    \/ RldDownloaded
    \/ \E t \in 1..MaxWorkers : RldNextPackage(t)
    \/ \E t \in 1..MaxWorkers : RldParse(t)
    \/ RldLockToWrite
    \/ RldWriteBack
    \/ RldConclude
    \/ ConfigChange
    \/ CleanRepositoryRun
    \/ CleanRepositoryFileOps

Spec == Init /\ [][Next]_vars

\* one action type at a time
NextRemovePackages == Enqueue \/ Start \/ Abort \/ RemovePackagesRun \/ RemoveHandleRepoRemoveResult
InitRemovePackages == Init /\ type = "RemovePackages"
SpecRemovePackages == InitRemovePackages /\ [][NextRemovePackages]_vars

NextMovePackages ==
    \/ Enqueue
    \/ Start
    \/ Abort
    \/ MovePackagesRun
    \/ MoveHandleRepoRemoveResult
    \/ MoveHandleRepoAddResult
    \/ MoveConclude
InitMovePackages == Init /\ type = "MovePackages"
SpecMovePackages == InitMovePackages /\ [][NextMovePackages]_vars

NextReload ==
    \/ Enqueue
    \/ Start
    \/ Abort
    \/ RldRun
    \/ RldCollect
    \/ RldCollectDone
    \/ RldDownloaded
    \/ \E t \in 1..MaxWorkers : RldNextPackage(t)
    \/ \E t \in 1..MaxWorkers : RldParse(t)
    \/ RldLockToWrite
    \/ RldWriteBack
    \/ RldConclude
    \/ ConfigChange
InitReload == Init /\ type = "ReloadLibraryDependencies"
SpecReload == InitReload /\ [][NextReload]_vars

\* a ReloadLibraryDependencies over all databases, while other actions change the Config at any time of the
\* parse phase
NextReloadParse ==
    \/ Enqueue
    \/ Start
    \/ Abort
    \/ RldRun
    \/ RldCollect
    \/ RldCollectDone
    \/ RldDownloaded
    \/ \E t \in 1..MaxWorkers : RldNextPackage(t)
    \/ \E t \in 1..MaxWorkers : RldParse(t)
    \/ RldLockToWrite
    \/ RldWriteBack
    \/ RldConclude
    \/ ConfigChangeWhileParsing
InitReloadParse == Init /\ type = "ReloadLibraryDependencies" /\ destinationDbs = {} /\ flags = {}
SpecReloadParse == InitReloadParse /\ [][NextReloadParse]_vars

NextClean == Enqueue \/ Start \/ Abort \/ CleanRepositoryRun \/ CleanRepositoryFileOps
InitClean == Init /\ type = "CleanRepository"
SpecClean == InitClean /\ [][NextClean]_vars

\* the StorageCache of one storage, used by a client on its own
NextCache ==
    \/ \E name \in EntryNames : Retrieve(name) /\ UNCHANGED <<txn, ops>>
    \/ \E id \in 1..MaxId : RetrieveById(id) /\ UNCHANGED <<txn, ops>>
    \/ \E k \in Objects, force \in BOOLEAN : Store(k, force) /\ UNCHANGED <<txn, ops>>
    \/ \E name \in EntryNames : Invalidate(name) /\ UNCHANGED <<txn, ops>>
    \/ ClearCacheOnly /\ UNCHANGED <<txn, ops>>
    \/ Clear /\ UNCHANGED <<txn, ops>>
\* no build action is made: the record of the action stays as created
InitIdle == InitAction /\ type = "CheckForProblems" /\ destinationDbs = {} /\ cfg[MaxDbs].exists
InitCache == Init /\ type = "CheckForProblems" /\ destinationDbs = {} /\ cfg[MaxDbs].exists
SpecCache == InitCache /\ [][NextCache]_vars

\* the StorageCache of one storage, used by a thread that stores and threads that retrieve
NextCacheThreads ==
    \/ \E k \in Objects, force \in BOOLEAN : StoreBegin(k, force) /\ UNCHANGED ops
    \/ StoreUpdateCache /\ UNCHANGED ops
    \/ StoreCommit /\ UNCHANGED ops
    \/ \E name \in EntryNames : Retrieve(name) /\ dropsCacheEntry /\ UNCHANGED ops
    \/ \E id \in 1..MaxId : RetrieveById(id) /\ dropsCacheEntry /\ UNCHANGED ops
InitCacheThreads == InitIdle /\ build = NoBuild /\ client = NoClient /\ lookups = <<>> /\ options = NoOptions
SpecCacheThreads == InitCacheThreads /\ [][NextCacheThreads]_vars

\* the StorageCache of one storage, used by a thread that retrieves while another invalidates
NextCacheInvalidate ==
    \/ \E k \in Objects : StoreAlone(k)
    \/ \E name \in 1..MaxRaced : RetrieveBegin(name)
    \/ RetrieveRead
    \/ RetrieveInsert
    \/ \E name \in 1..MaxRaced : InvalidateErase(name) /\ UNCHANGED txn
    \/ InvalidateDelete
InitCacheInvalidate == InitIdle /\ build = NoBuild /\ client = NoClient /\ lookups = <<>> /\ options = NoOptions
SpecCacheInvalidate == InitCacheInvalidate /\ [][NextCacheInvalidate]_vars

\* the StorageCache of one storage, used by a thread that stores while others invalidate and clear (for the
\* threads that retrieve, and so evict, see SpecCacheThreads); the read-write transaction of invalidate()
\* waits for the one of store()
NextCacheStore ==
    \/ \E k \in Objects : StoreBegin(k, FALSE) /\ UNCHANGED ops
    \/ StoreUpdateCache /\ UNCHANGED ops
    \/ StoreCommit /\ UNCHANGED ops
    \/ \E name \in 1..MaxRaced : InvalidateErase(name) /\ dropsCacheEntry
    \/ InvalidateDelete /\ txn.pc = "idle"
    \/ ClearCacheOnly /\ dropsCacheEntry /\ UNCHANGED ops
InitCacheStore == InitIdle /\ build = NoBuild /\ client = NoClient /\ lookups = <<>> /\ options = NoOptions
SpecCacheStore == InitCacheStore /\ [][NextCacheStore]_vars

\* a ConductBuild going through its batches
NextConductBuild == ConductStartPackage \/ ConductPackageDone \/ ConductNextBatch
InitConductBuild == InitIdle /\ build \in InitialBuilds /\ client = NoClient /\ lookups = <<>> /\ options = NoOptions
SpecConductBuild == InitConductBuild /\ [][NextConductBuild]_vars

\* one run of the client
NextClient == ClientParseArgs \/ ClientParseConfig \/ ClientHandleResponse \/ ClientReturn
InitClient == InitIdle /\ build = NoBuild /\ client \in InitialClients /\ lookups = <<>> /\ options = NoOptions
SpecClient == InitClient /\ [][NextClient]_vars

\* lookups in the meta info
NextMetaInfo == LookupType
InitMetaInfo == InitIdle /\ build = NoBuild /\ client = NoClient /\ lookups = <<>> /\ options = NoOptions
SpecMetaInfo == InitMetaInfo /\ [][NextMetaInfo]_vars

\* lookups of flags and settings in the mappings of the meta info
NextMetaMappings == LookupFlag \/ LookupSetting
InitMetaMappings == InitIdle /\ build = NoBuild /\ client = NoClient /\ lookups = <<>> /\ options = NoOptions
SpecMetaMappings == InitMetaMappings /\ [][NextMetaMappings]_vars

\* BuildOrderOptions combined and tested
NextBuildOrderOptions == CombineOptions \/ TestOption
InitBuildOrderOptions == InitIdle /\ build = NoBuild /\ client = NoClient /\ lookups = <<>> /\ options = NoOptions
SpecBuildOrderOptions == InitBuildOrderOptions /\ [][NextBuildOrderOptions]_vars

\* ------------------------------------------------------------------ claims
\* C1: every started run of an internal build action reports a result exactly once: the result differs
\* from None exactly in Finished, it is reported once and never twice, and a run whose run() and handlers
\* have all been left (normally or by an exception) has reached Finished with one report.
C1_ReportsExactlyOnce ==
    /\ status = "Finished" <=> result # "None"
    /\ reportCount <= 1
    /\ pc \in {"done", "threw"} => status = "Finished" /\ reportCount = 1
\* run() of ReloadLibraryDependencies has been left by std::bad_variant_access and nothing was reported
C1_RunLeftWithoutReport ==
    /\ type = "ReloadLibraryDependencies" /\ pc = "threw"
    /\ status = "Running" /\ result = "None" /\ reportCount = 0
    /\ m_messages.errors # <<>>

\* C10: no internal action holds the Config lock across a suspension: while a child process, a download,
\* the parse workers or the file operations of CleanRepository are awaited, and once run() has been left,
\* the lock obtained from init() is released.
Suspended == {"waitRepoRemove", "waitChildren", "waitCommand", "download", "parse", "fileOps", "conclude", "done", "threw"}
C10_NoLockAcrossSuspension ==
    /\ pc \in Suspended => configLock = "none"
    /\ launched # {} => configLock = "none"
\* each kind of suspension is reached after init() had handed out the lock
C10_ParsingWithoutLock ==
    /\ type = "ReloadLibraryDependencies" /\ pc = "parse" /\ configLock = "none"
    /\ \E t \in DOMAIN rld.threads : rld.threads[t].pc # "finished"

\* C2: StorageCache round trip: a retrieve by name that follows store(s, e, force = false) at once returns
\* the entry e with the id store returned, and a retrieve by name that follows invalidate(s, name) at once
\* returns (0, none), whatever operations went before.
C2_RoundTrip ==
    [][/\ (lastOp.op = "store" /\ ~lastOp.force /\ lastOp'.op = "retrieve" /\ lastOp'.name = lastOp.name)
            => lastOp'.id = lastOp.id /\ lastOp'.entry = lastOp.entry
       /\ (lastOp.op = "invalidate" /\ lastOp'.op = "retrieve" /\ lastOp'.name = lastOp.name)
            => lastOp'.id = 0 /\ lastOp'.entry = NoEntry]_vars
\* the backing store holds two entries of one name, of which invalidate deletes one
C2_TwoEntriesOfOneName ==
    /\ lastOp.op = "store" /\ ~lastOp.force /\ lastOp.updated
    /\ Cardinality(idsOfName(backing, lastOp.name)) = 2

\* C3: in every state the write-back of ReloadLibraryDependencies leaves behind, every package of a
\* database that the write-back visited is listed in the four indices of its database under all of its
\* projections, whether or not the merge was applied.
visited(d, n) ==
    \E i \in 1..Len(rld.relevant) : /\ rld.relevant[i].name = d
                                    /\ \E j \in 1..Len(rld.relevant[i].packages) : rld.relevant[i].packages[j].name = n
C3_IndexedAfterWriteBack ==
    (type = "ReloadLibraryDependencies" /\ pc \in {"conclude", "done"}) =>
        \A d \in DbNames, n \in PkgNames :
            (cfg[d].exists /\ cfg[d].packages[n].present /\ visited(d, n)) => indexed(cfg[d], n)
\* a package the write-back visited and whose merge was refused is in its database but in none of the indices
C3_PackageLeftUnindexed ==
    /\ type = "ReloadLibraryDependencies" /\ pc = "conclude"
    /\ \E d \in DbNames, n \in PkgNames :
        /\ cfg[d].exists /\ cfg[d].packages[n].present /\ visited(d, n)
        /\ \A e \in cfg[d].providedDeps : e[2] # n

\* the messages of the run: m_messages until conclude() moves them into resultData
recorded == IF resultData.kind = "messages" THEN resultData.data ELSE m_messages
\* init() found the parameters invalid and reported the error as a string
validationFailed == resultData.kind = "string" /\ resultData.text # ""
\* run() and everything it started has been left: by conclude(), by an early return or by an exception
RldLeft == type = "ReloadLibraryDependencies" /\ pc \in {"done", "threw"}

\* C4: a ReloadLibraryDependencies that is not aborted and whose parameters were valid finishes with
\* Failure exactly if an error was recorded in messages.errors at any phase, with Success otherwise, and
\* resultData then holds the collected messages.
C4_FailureIffErrors ==
    (RldLeft /\ ~aborted /\ ~validationFailed) =>
        /\ resultData.kind = "messages"
        /\ result = (IF recorded.errors # <<>> THEN "Failure" ELSE "Success")
\* an error was recorded while the relevant databases were collected and no result was reported
C4_ErrorWithoutResult ==
    /\ RldLeft /\ ~aborted /\ ~validationFailed
    /\ m_messages.errors # <<>> /\ result = "None"

\* C5: if repo-add or repo-remove of MovePackages could not be invoked or exited non-zero, then at
\* conclusion no package is reported as processed, every package that had been copied to the destination
\* is in failedPackages, and the result is Failure.
childFailed == \E e \in exited : e.exit # "ok"
copied == UNION {Range(l.args) : l \in {c \in launched : c.proc = "repo-add"}}
C5_MovedOnlyIfBothChildrenSucceeded ==
    (type = "MovePackages" /\ pc = "done" /\ childFailed) =>
        /\ result = "Failure"
        /\ resultData.kind = "movement"
        /\ resultData.data.processedPackages = <<>>
        /\ copied \subseteq NamesOf(resultData.data.failedPackages)
\* repo-remove succeeded, repo-add failed, and the package that was copied is reported as failed
C5_RepoAddAloneFailed ==
    /\ type = "MovePackages" /\ pc = "done"
    /\ [proc |-> "repo-remove", exit |-> "ok"] \in exited
    /\ [proc |-> "repo-add", exit |-> "nonZero"] \in exited
    /\ copied # {} /\ result = "Failure"

\* C6: after a successful repo-remove, every located package of RemovePackages is in failedPackages
\* exactly if archiving one of its files failed and in processedPackages exactly if archiving succeeded,
\* so that no package is in both lists or in neither.
wasArchived(l) ==
    /\ [op |-> "rename", path |-> Path("repo", l.name, 0)] \in fsLog
    /\ l.storage => [op |-> "rename", path |-> Path("storage", l.name, 0)] \in fsLog
C6_AllOrNothingPerPackage ==
    (type = "RemovePackages" /\ pc = "done" /\ [proc |-> "repo-remove", exit |-> "ok"] \in exited) =>
        \A i \in 1..Len(m_packageLocations) :
            LET l == m_packageLocations[i] IN
            /\ l.name \in Range(resultData.data.processedPackages) <=> wasArchived(l)
            /\ l.name \in NamesOf(resultData.data.failedPackages) <=> ~wasArchived(l)
\* a package whose archiving failed is reported as processed and as failed
C6_FailedPackageStillProcessed ==
    /\ type = "RemovePackages" /\ pc = "done" /\ [proc |-> "repo-remove", exit |-> "ok"] \in exited
    /\ \E i \in 1..Len(m_packageLocations) :
        LET l == m_packageLocations[i] IN
        /\ ~wasArchived(l)
        /\ l.name \in Range(resultData.data.processedPackages)
        /\ l.name \in NamesOf(resultData.data.failedPackages)

\* the file operations CleanRepository made on file f of directory i
touched(i, f) == \E o \in fsLog : o.path = Path("dir", i, f)
\* CleanRepository has classified the files of the directories it found
Classified == type = "CleanRepository" /\ pc \in {"fileOps", "done"} /\ repoDirs # <<>>

\* C7: CleanRepository with the DryRun flag makes no change to the file system (no file deleted, no file
\* renamed, no directory created) and notes every deletion and archiving it would have done.
C7_DryRunMutatesNothing ==
    (type = "CleanRepository" /\ "DryRun" \in flags) =>
        /\ fsLog = {}
        /\ (pc = "done" /\ repoDirs # <<>>) =>
                \A i \in 1..Len(repoDirs) :
                    repoDirs[i].type # "Src" =>
                        /\ \A f \in Range(repoDirs[i].toDelete) : Msg("Deleted", i, f) \in Range(recorded.notes)
                        /\ \A f \in Range(repoDirs[i].toArchive) : Msg("Archived", i, f) \in Range(recorded.notes)
\* a dry run has created the archive directory of a repository directory
C7_DryRunCreatedDirectory ==
    /\ type = "CleanRepository" /\ "DryRun" \in flags /\ pc = "done"
    /\ \E i \in 1..Len(repoDirs) : [op |-> "mkdir", path |-> Path("archive", i, 0)] \in fsLog

\* the ways a file of a repository directory is protected
isDbFile(f) == contains(f, ".db") \/ contains(f, ".files")
isPackageFile(f) == ~isDbFile(f) /\ (contains(f, ".pkg") \/ contains(f, ".src"))
unparsable(f) == isPackageFile(f) /\ FileCatalog[f].pkg = 0
entryOf(d, f) == cfg[d].packages[FileCatalog[f].pkg]
listedExactly(d, f) ==
    /\ isPackageFile(f) /\ ~unparsable(f)
    /\ entryOf(d, f).present /\ entryOf(d, f).hasInfo /\ entryOf(d, f).fileName = f
missesFileName(d, f) ==
    /\ isPackageFile(f) /\ ~unparsable(f)
    /\ entryOf(d, f).present /\ (~entryOf(d, f).hasInfo \/ entryOf(d, f).fileName = 0)
protected(i, f) ==
    \/ isDbFile(f)
    \/ unparsable(f)
    \/ \E d \in Range(repoDirs[i].relevantDbs) : listedExactly(d, f) \/ missesFileName(d, f)
untouched(i, f) ==
    /\ f \notin Range(repoDirs[i].toDelete) \cup Range(repoDirs[i].toArchive)
    /\ ~touched(i, f)

C9_AbortIsClean ==
    [][(type = "ReloadLibraryDependencies" /\ aborted) =>
            /\ pc' # "threw"
            /\ (pc # "done" /\ pc' = "done" /\ ~validationFailed') => result' = "Aborted"]_vars
\* the flag was set while the action was running and run() was left by an exception, without any result
C9_AbortedAndThrown ==
    /\ type = "ReloadLibraryDependencies" /\ aborted /\ pc = "threw"
    /\ status = "Running" /\ result = "None"

\* a step that is the call store(storage, k, force): it returns at once or leaves its entry in a transaction
storeStep(k, force) ==
    /\ txn.pc = "idle"
    /\ \/ txn'.pc = "put" /\ txn'.k = k /\ txn'.force = force
       \/ txn'.pc = "idle" /\ lastOp'.op = "store" /\ lastOp'.entry.obj = k /\ lastOp'.force = force
\* the call did nothing: not updated, the id of the cache entry i, no transaction, store and cache entry as before
storeDidNothing(i) ==
    /\ txn' = NoTxn
    /\ ~lastOp'.updated /\ lastOp'.id = cache[i].id
    /\ backing' = backing
    /\ \E j \in 1..Len(cache') : cache'[j] = cache[i]
\* the call wrote the entry k: it is in an open transaction under the id the store gives it
storeWrote(k) ==
    /\ txn'.pc = "put"
    /\ txn'.store[txn'.id] = [present |-> TRUE, name |-> EntryName(k), val |-> heap'[k]]
\* a store() returns after its commit with updated = true and the entry in the backing store
storeReturnsUpdated ==
    txn.pc = "cached" /\ txn'.pc = "idle" =>
        lastOp'.updated /\ backing'[lastOp'.id] = [present |-> TRUE, name |-> lastOp'.name, val |-> lastOp'.entry.val]

\* C11 as stated: store(s, e, force = false) is a no-op when the cache holds an entry for (s, e.name) that is
\* identical in content to e; with force = true the entry is written and updated = true.
C11_NoOpWhenContentIdentical ==
    [][/\ \A k \in Objects : LET i == findByName(cache, EntryName(k)) IN
              i # 0 /\ cache[i].entry.val = heap[k] /\ storeStep(k, FALSE) => storeDidNothing(i)
       /\ \A k \in Objects : storeStep(k, TRUE) => storeWrote(k)
       /\ storeReturnsUpdated]_vars
\* C11 (amended): store(s, e, force = false) is a no-op when the cache holds for (s, e.name) the very entry
\* object e (the same shared pointer): it returns updated = false with the id of the cache entry, opens no
\* write transaction and leaves the backing store and the cache entry unchanged; with force = true the entry
\* is written and updated = true.
C11_NoOpWhenSameObject ==
    [][/\ \A k \in Objects : LET i == findByName(cache, EntryName(k)) IN
              i # 0 /\ cache[i].entry.obj = k /\ storeStep(k, FALSE) => storeDidNothing(i)
       /\ \A k \in Objects : storeStep(k, TRUE) => storeWrote(k)
       /\ storeReturnsUpdated]_vars
\* a store() of the cached object has returned without writing, after a forced store() of an object was committed
C11_StoredCachedObject ==
    /\ lastOp.op = "store" /\ ~lastOp.updated /\ ~lastOp.force /\ lastOp.id # 0
    /\ txn = NoTxn
    /\ \E i \in 1..Len(cache) : cache[i].entry = lastOp.entry /\ cache[i].id = lastOp.id
    /\ backing[lastOp.id].present

\* the cache entry i was hit by the step: looked up by name by retrieve() or store(), or by id by retrieve()
hit(i) ==
    \/ lastOp'.op \in {"retrieve", "store"} /\ lastOp'.name = cache[i].name
    \/ lastOp'.op = "retrieveById" /\ lastOp'.id = cache[i].id
\* the step put an entry into the cache that has neither the name nor the id of an entry that was there
insertedNew ==
    /\ cache' # <<>>
    /\ \A i \in 1..Len(cache) : cache[i].name # cache'[1].name /\ cache[i].id # cache'[1].id
\* C12: the cache never holds more than its capacity of entries and never two entries with the same name or
\* the same id (of the one storage); an insertion that exceeds the capacity drops the least recently used entry
\* and never the one just inserted; every cache hit makes the hit entry the most recently used one.
C12_BoundedUniqueLru ==
    /\ [](/\ Len(cache) <= Limit
          /\ \A i, j \in 1..Len(cache) : i # j => cache[i].name # cache[j].name /\ cache[i].id # cache[j].id)
    /\ [][/\ insertedNew =>
               Tail(cache') = IF Len(cache) = Limit THEN SubSeq(cache, 1, Limit - 1) ELSE cache
          /\ \A i \in 1..Len(cache) : hit(i) =>
               /\ cache'[1].name = cache[i].name /\ cache'[1].id = cache[i].id
               /\ lastOp'.op # "store" => cache'[1] = cache[i]
               /\ Tail(cache') = RemoveAt(cache, i)]_vars
\* the cache is full, the entry just stored is the most recently used one, and an entry of the storage
\* is not in the cache
C12_FullCacheAfterInsert ==
    /\ Len(cache) = Limit
    /\ lastOp.op = "store" /\ lastOp.updated /\ cache[1].id = lastOp.id /\ cache[1].entry = lastOp.entry
    /\ \E id \in 1..MaxId : backing[id].present /\ \A i \in 1..Len(cache) : cache[i].id # id
    /\ \A id \in 1..MaxId : backing[id].present

\* the result of a PackageMovementAction, before and after it is moved into resultData
movementResult == IF resultData.kind = "movement" THEN resultData.data ELSE m_result
\* MovePackages::run has gone through its copy loop
copyLoopLeft ==
    /\ type = "MovePackages" /\ pc \in {"waitChildren", "done"}
    /\ [op |-> "mkdir", path |-> Path("workdir", 0, 0)] \in fsLog
\* the package was not copied and not deleted, was given to no child process, is listed as failed with one of
\* the errors, and every other located package was copied or is listed as failed
refusedWith(l, errors) ==
    /\ \A e \in fsLog : e.path[2] # l.name
    /\ \A c \in launched : l.name \notin Range(c.args)
    /\ \E error \in errors : <<l.name, error>> \in Range(movementResult.failedPackages)
    /\ \A j \in 1..Len(m_packageLocations) :
           LET other == m_packageLocations[j] IN
           other.name # l.name =>
               \/ [op |-> "copy", path |-> Path("dest", other.name, 0)] \in fsLog
               \/ other.name \in NamesOf(movementResult.failedPackages)
requirementError ==
    CASE type = "RemovePackages" -> validateParameter(FALSE, "One", TRUE)
      [] type = "MovePackages" -> validateParameter(TRUE, "One", TRUE)
      [] type = "CustomCommand" -> validateParameter(FALSE, "None", FALSE)
      [] type = "ReloadLibraryDependencies" -> validateParameter(FALSE, "Maybe", FALSE)
      [] OTHER -> validateParameter(FALSE, "OneOrMore", FALSE)
\* C14: when the inputs of an action violate its required databases or parameters, the failure is reported
\* before run() returns: the result is Failure, resultData is a human-readable string, and the action does
\* nothing else: it keeps no lock, launches no child process and mutates no file and no database.
C14_ValidationFailureReported ==
    [][pc = "run" /\ pc' # "run" /\ requirementError # "" =>
          /\ pc' = "done"
          /\ status' = "Finished" /\ result' = "Failure" /\ reportCount' = reportCount + 1
          /\ resultData' = [kind |-> "string", text |-> requirementError]
          /\ configLock' = "none"
          /\ UNCHANGED <<launched, exited, fsLog, cfg, directory, m_messages, movementVars, rld, repoDirs>>]_vars
\* a package movement without exactly one destination database has failed with the error as result data
C14_MovementWithoutDestination ==
    /\ type \in {"RemovePackages", "MovePackages"} /\ Cardinality(destinationDbs) # 1
    /\ pc = "done" /\ result = "Failure"
    /\ resultData = [kind |-> "string", text |-> "not exactly one destination database specified"]
    /\ launched = {} /\ fsLog = {} /\ configLock = "none"

wasStarted(p) == build.state[p] \in {"building", "finished", "failed"}
\* C15: ConductBuild processes the batches strictly in order: no package of a later batch is started before
\* every package of the earlier batches has finished; without BuildAsFarAsPossible nothing of a later batch is
\* started once a package of the batches built so far failed; with BuildAsFarAsPossible the build continues,
\* but only with the packages whose dependencies all succeeded.
C15_BatchesInOrder ==
    /\ \A p, q \in BuildPackages :
           wasStarted(p) /\ batchOf(q) < batchOf(p) => build.state[q] \in {"finished", "failed", "skipped"}
    /\ \A i, j \in 1..Len(build.started) : i < j => batchOf(build.started[i]) <= batchOf(build.started[j])
    /\ "BuildAsFarAsPossible" \notin build.flags =>
           \A p, q \in BuildPackages : wasStarted(p) /\ batchOf(q) < batchOf(p) => build.state[q] = "finished"
    /\ \A p \in BuildPackages : wasStarted(p) => \A d \in build.deps[p] : build.state[d] = "finished"
    /\ build.pc = "done" /\ "BuildAsFarAsPossible" \in build.flags =>
           \A p \in BuildPackages : (\A d \in build.deps[p] : build.state[d] = "finished") => wasStarted(p)
\* with BuildAsFarAsPossible a package of the first batch failed, and of the second batch the package that
\* depends on it was left out and the other one was built
C15_BuiltAsFarAsPossible ==
    /\ build.pc = "done" /\ "BuildAsFarAsPossible" \in build.flags
    /\ \E p, q \in packagesOfBatch(MaxBatches) : build.state[p] = "skipped" /\ build.state[q] = "finished"
    /\ \E p \in packagesOfBatch(1) : build.state[p] = "failed"

\* C17: the exit code of the client is 0 when the request succeeded and was displayed, 10 when the config file
\* cannot be parsed, 11 when the response of the server cannot be parsed and 12 when it cannot be displayed.
C17_ExitCodes ==
    (client.pc = "exited" /\ client.operation \in {"search", "package"}) =>
        client.exit = (CASE client.config # "ok" -> 10
                         [] client.response = "unparsable" -> 11
                         [] client.response = "undisplayable" -> 12
                         [] OTHER -> 0)
\* the response could not be parsed, handleResponse has set the return code 11, and the client has exited with 0
C17_ParseErrorExitsWithZero ==
    /\ client.pc = "exited" /\ client.response = "unparsable"
    /\ client.returnCode = 11 /\ client.exit = 0

\* C18: typeInfoForName(slug) returns, for every slug that is the type of an entry of the meta-info table,
\* exactly that entry, and for every other string the entry with the id Invalid.
C18_TypeInfoForName ==
    \A k \in 1..Len(lookups) :
        LET entries == {i \in 1..Len(types) : types[i].type = lookups[k].name} IN
        /\ Cardinality(entries) <= 1
        /\ \A i \in entries : lookups[k].info = types[i]
        /\ entries = {} => lookups[k].info.id = "Invalid"
\* the type of an action and a string that is the type of no entry have been looked up
C18_KnownAndUnknownName ==
    /\ Len(lookups) = MaxLookups
    /\ lookups[1].name = "custom-command" /\ lookups[1].info.id = "CustomCommand"
    /\ lookups[MaxLookups].name = "Remove packages" /\ lookups[MaxLookups].info.id = "Invalid"

\* the packages to consider, by database and position, and the threads that have taken one and not parsed it yet
holders(i, j) == {t \in DOMAIN rld.threads : rld.threads[t].pc = "parse" /\ rld.threads[t].db = i /\ rld.threads[t].pkg = j}
joined == rld.threads # <<>> /\ \A t \in DOMAIN rld.threads : rld.threads[t].pc = "finished"
committed(i) ==
    backing[cache[i].id] = [present |-> TRUE, name |-> cache[i].name, val |-> cache[i].entry.val]
\* C19: store() commits its write to the backing store before it updates the cache: in no interleaving with a
\* retrieve() of another thread does the cache hold, or hand out, an entry whose write transaction is not
\* committed yet.
C19_CommittedBeforeCached ==
    /\ \A i \in 1..Len(cache) : committed(i)
    /\ lastOp.op \in {"retrieve", "retrieveById"} /\ lastOp.id # 0 =>
           backing[lastOp.id] = [present |-> TRUE, name |-> lastOp.name, val |-> lastOp.entry.val]
\* retrieve() of another thread has handed out the entry a store() has put into the cache and not committed yet
C19_UncommittedEntryHandedOut ==
    /\ txn.pc = "cached"
    /\ lastOp.op = "retrieve" /\ lastOp.entry.obj = txn.k /\ lastOp.id = txn.id
    /\ ~backing[txn.id].present

\* computeDatabaseDependencyOrder returned an error string for a destination database
dependencyError(messages) == \E i \in 1..Len(messages.errors) : messages.errors[i].text = "unable to consider dependencies"

\* C21: if computeDatabaseDependencyOrder returns an error string for a destination database,
\* ReloadLibraryDependencies records the error in messages.errors, raises no exception (it goes on with
\* the remaining destination databases) and, unless aborted, concludes with the result Failure.
C21_DependencyErrorRecorded ==
    type = "ReloadLibraryDependencies" =>
        /\ pc # "threw"
        /\ (pc = "done" /\ ~aborted /\ dependencyError(recorded)) => result = "Failure"
\* the error was recorded and std::bad_variant_access left run() before any other database was looked at
C21_ThrownAfterRecording ==
    /\ type = "ReloadLibraryDependencies" /\ pc = "threw" /\ ~aborted
    /\ dependencyError(m_messages) /\ Len(m_messages.errors) = 1
    /\ Cardinality(destinationDbs) = 2
    /\ rld.relevant = <<>> /\ result = "None"

\* C22: invalidate removes the entry from the cache and the store even when it races with a retrieve: once
\* an invalidate of a name and a retrieve of that name that ran concurrently have both returned, and no
\* store of the name took place, the cache holds no entry of the name and a later retrieve of the name
\* returns (0, none).
C22_InvalidateWinsRace ==
    \A name \in ops.raced :
        /\ (ops.reader.pc = "idle" /\ ops.inv.pc = "idle") => findByName(cache, name) = 0
        /\ (ops.reader.pc = "idle" /\ ops.reader.name = name /\ ops.reader.late) => ops.reader.id = 0
\* the storage holds no entry of the name any more, the cache holds the one retrieve() had read before the
\* invalidate deleted it, and a retrieve that began after the two calls had returned got it
C22_InvalidatedEntryRetrieved ==
    \E name \in ops.raced :
        /\ ops.reader.pc = "idle" /\ ops.inv.pc = "idle"
        /\ idsOfName(backing, name) = {}
        /\ ops.reader.name = name /\ ops.reader.late /\ ops.reader.id # 0
        /\ findByName(cache, name) # 0

\* C23: the cache entry that store() updates after it has taken the mutex again is a live member of the
\* cache: no invalidate, clear or eviction of the entry while store() did not hold the mutex makes store()
\* write through a reference to an entry that was removed.
C23_UpdatedEntryIsLive ==
    txn.pc \in {"cached", "crashed"} => ~(txn.cached /\ txn.dangling)
\* store() has written through the pointer find() gave it, after invalidate() had erased that cache entry
C23_WroteThroughErasedEntry ==
    /\ txn.pc \in {"cached", "crashed"} /\ txn.cached /\ txn.dangling
    /\ ops.inv.pc = "delete" /\ ops.inv.name = EntryName(txn.k)
    /\ lastOp.op = "store"

\* C24: storage ids are stable across updates: a store() of a name the backing store holds already writes
\* the entry under the id it had and returns that id, whether the previous entry is in the cache or in the
\* backing store only, and the backing store never holds two entries of one name.
C24_StableIds ==
    [][lastOp'.op = "store" =>
            /\ idsOfName(backing, lastOp'.name) # {} => lastOp'.id \in idsOfName(backing, lastOp'.name)
            /\ \A name \in EntryNames : Cardinality(idsOfName(backing', name)) <= 1]_vars
\* the previous entry was read from the backing store, not from the cache, and the entry was written under a
\* new id beside it
C24_WrittenUnderNewId ==
    /\ lastOp.op = "store" /\ lastOp.updated
    /\ lastOp.oldEntry.obj = Loaded
    /\ backing[lastOp.id].name = lastOp.name
    /\ \E id \in idsOfName(backing, lastOp.name) : id < lastOp.id /\ backing[id].val = lastOp.oldEntry.val

\* the files MovePackages deleted from the source repository
deletedFromSource == {o \in fsLog : o.op = "remove" /\ o.path[1] = "source"}
repoAddFailed == \E e \in exited : e.proc = "repo-add" /\ e.exit # "ok"

\* C25: MovePackages deletes the file of a package from the source repository only if both child
\* processes succeeded: if repo-add at the destination fails, no source file has been deleted when the action
\* finishes, whichever of repo-add and repo-remove exits first.
C25_SourceKeptIfRepoAddFails ==
    (type = "MovePackages" /\ pc = "done" /\ repoAddFailed) => deletedFromSource = {}
\* repo-add failed, repo-remove succeeded, and the action finished with Failure after the file of a package
\* that it reports as failed was deleted from the source repository
C25_DeletedThoughRepoAddFailed ==
    /\ type = "MovePackages" /\ pc = "done" /\ result = "Failure"
    /\ repoAddFailed /\ [proc |-> "repo-remove", exit |-> "ok"] \in exited
    /\ \E o \in deletedFromSource : o.path[2] \in NamesOf(resultData.data.failedPackages)

\* the step is a report of the result
reports == reportCount' # reportCount
bothHandled == {e.proc : e \in exited} = {"repo-add", "repo-remove"}

\* C26: MovePackages::conclude runs exactly once per run that launched the child processes, and only after
\* both the repo-add handler and the repo-remove handler have run, in either order; the result is reported
\* only from conclude: once the processes are launched, the only report is the one step that concludes, it is
\* taken after both handlers, it is taken once, and it can be taken as soon as both handlers have run.
C26_ConcludedOnceAfterBothHandlers ==
    [][(type = "MovePackages" /\ launched # {}) =>
            /\ reports => /\ pc = "waitChildren" /\ pc' = "done"
                          /\ bothHandled /\ pending = {}
                          /\ reportCount = 0 /\ status' = "Finished"
            /\ pc' = "done" => reports
            /\ (bothHandled' /\ pc' = "waitChildren") => (ENABLED MoveConclude)']_vars
\* the action has concluded after repo-remove and repo-add were handled, with its one report
C26_ConcludedAfterBothHandlers ==
    /\ type = "MovePackages" /\ pc = "done" /\ launched # {}
    /\ bothHandled /\ pending = {}
    /\ reportCount = 1 /\ resultData.kind = "movement"

\* what conclude() reports for the members the handlers have left: result, errorMessage, processedPackages
\* and failedPackages
outcome(st) == moveConcludeResult(st.res, st.addError)
ExitStatuses == {"launchError", "nonZero", "ok"}
bothPending == type = "MovePackages" /\ pc = "waitChildren" /\ pending = {"repo-add", "repo-remove"}

\* C27: the outcome of MovePackages does not depend on which child process finishes first: from every state
\* in which both processes are running, for the same exit statuses of repo-add and repo-remove and the same
\* outcomes of the deletions, conclude() reports the same result, errorMessage, processedPackages and
\* failedPackages (and the same files are deleted) whether the repo-add or the repo-remove handler runs first.
C27_HandlerOrderIrrelevant ==
    bothPending =>
        \A exitAdd \in ExitStatuses, exitRemove \in ExitStatuses, out \in [1..Len(m_packageLocations) -> BOOLEAN] :
            LET removeFirst == handleRepoAddResult(handleRepoRemoveResult(movementState, exitRemove, out), exitAdd)
                addFirst == handleRepoRemoveResult(handleRepoAddResult(movementState, exitAdd), exitRemove, out)
            IN  outcome(removeFirst) = outcome(addFirst) /\ removeFirst.fs = addFirst.fs
\* both processes are running for two packages, and with repo-add failing and one deletion failing after a
\* successful repo-remove both orders of the handlers end in Failure with both packages failed
C27_BothOrdersFail ==
    /\ bothPending /\ Len(m_result.processedPackages) = 2
    /\ LET out == [i \in 1..Len(m_packageLocations) |-> i # 1]
           removeFirst == handleRepoAddResult(handleRepoRemoveResult(movementState, "ok", out), "nonZero")
           addFirst == handleRepoRemoveResult(handleRepoAddResult(movementState, "nonZero"), "ok", out)
       IN  /\ outcome(removeFirst).result = "Failure" /\ outcome(addFirst).result = "Failure"
           /\ Len(outcome(addFirst).data.failedPackages) = 2
           /\ addFirst.fs # fsLog

\* the step is the write-back of loadPackageInfoFromContents, after the workers were joined
writesBack == type = "ReloadLibraryDependencies" /\ pc = "writeBack" /\ pc' = "conclude"
\* the package the write-back has filled with the libraries found in its contents
writtenBack(d, n) ==
    /\ cfg[d].exists /\ cfg[d].packages[n].present
    /\ cfg[d].packages[n].origin = "PackageContents" /\ cfg[d].packages[n].timestamp = 2

\* C28: a ReloadLibraryDependencies that is aborted during the parallel parse phase does not modify any
\* database: when the abort flag is set before the workers are joined, the write-back changes no package
\* and no dependency index, and the action ends Aborted.
C28_AbortedWritesNothing ==
    [][/\ (writesBack /\ aborted) => cfg' = cfg
       /\ (type = "ReloadLibraryDependencies" /\ pc = "conclude" /\ aborted /\ pc' = "done") => result' = "Aborted"]_vars
\* the workers stopped at the abort flag with a package left unparsed, the package parsed before was
\* written into its database, and the action ended Aborted
C28_AbortedButWrittenBack ==
    /\ type = "ReloadLibraryDependencies" /\ pc = "done" /\ result = "Aborted"
    /\ \E ij \in toConsider(rld.relevant) : rld.relevant[ij[1]].packages[ij[2]].taken = 0
    /\ \E ij \in toConsider(rld.relevant) :
        /\ rld.relevant[ij[1]].packages[ij[2]].info.origin = "PackageContents"
        /\ writtenBack(rld.relevant[ij[1]].name, rld.relevant[ij[1]].packages[ij[2]].name)

\* the keys of the packages map of a database
packageKeys(db) == {n \in PkgNames : db.packages[n].present}
\* what the indices of a database list for a package
indexEntries(db, n) ==
    LET of(index) == {e \in index : e[2] = n} IN
    <<of(db.providedDeps), of(db.requiredDeps), of(db.providedLibs), of(db.requiredLibs)>>
\* the packages the workers were given, as <<database name, package name, parsed successfully>>
considered ==
    {<<rld.relevant[ij[1]].name, rld.relevant[ij[1]].packages[ij[2]].name,
       rld.relevant[ij[1]].packages[ij[2]].info.origin = "PackageContents">> : ij \in toConsider(rld.relevant)}

\* C29: the write-back of ReloadLibraryDependencies never adds a package to a database and never removes
\* one: a parsed package whose database or whose name is no longer present is skipped, a package that was
\* not parsed successfully is not touched, and the key set of the packages map of every database is the same
\* before and after.
C29_WriteBackKeepsKeys ==
    [][writesBack =>
        /\ \A d \in DbNames :
            /\ cfg'[d].exists = cfg[d].exists
            /\ packageKeys(cfg'[d]) = packageKeys(cfg[d])
            /\ ~cfg[d].exists => cfg'[d] = cfg[d]
            /\ \A n \in PkgNames : ~cfg[d].packages[n].present => indexEntries(cfg'[d], n) = indexEntries(cfg[d], n)
        /\ \A c \in considered :
            ~c[3] => /\ cfg'[c[1]].packages[c[2]] = cfg[c[1]].packages[c[2]]
                     /\ indexEntries(cfg'[c[1]], c[2]) = indexEntries(cfg[c[1]], c[2])]_vars
\* after the write-back: a parsed package that was removed from its database in the meantime is still
\* absent, and another parsed package was written into its database
C29_RemovedPackageSkipped ==
    /\ type = "ReloadLibraryDependencies" /\ pc = "conclude"
    /\ \E c \in considered : c[3] /\ cfg[c[1]].exists /\ ~cfg[c[1]].packages[c[2]].present
    /\ \E c \in considered : c[3] /\ writtenBack(c[1], c[2])

\* the step in which worker t leaves the package i, j it was handling
handled(t, i, j) ==
    /\ type = "ReloadLibraryDependencies" /\ pc = "parse" /\ t \in DOMAIN rld.threads
    /\ rld.threads[t] = [pc |-> "parse", db |-> i, pkg |-> j] /\ rld'.threads[t].pc = "next"
\* the package could not be cached or parsed
unparsed(r, i, j) == r.relevant[i].packages[j].info.origin # "PackageContents"
\* the database still holds the package as it was when the package was collected
unchangedSince(d, p) ==
    /\ cfg[d].exists /\ cfg[d].packages[p.name].present
    /\ cfg[d].packages[p.name].version = p.info.version /\ cfg[d].packages[p.name].buildDate = p.info.buildDate

\* C30: a failure for one package in the parse phase of ReloadLibraryDependencies (download failed or archive
\* not parsable) adds exactly one entry to messages.errors, after the entries that are there (the append is
\* done holding submitErrorMutex), and the worker goes on to the next package; the write-back leaves the
\* database entry of that package unmodified; and unless the action is aborted every other package was
\* taken by a worker, and every package that was parsed and is still in its database as collected is
\* written back.
C30_PackageFailureIsLocal ==
    [][/\ \A t \in 1..MaxWorkers : \A ij \in toConsider(rld.relevant) :
            handled(t, ij[1], ij[2]) =>
                IF unparsed(rld', ij[1], ij[2])
                THEN /\ Len(m_messages'.errors) = Len(m_messages.errors) + 1
                     /\ SubSeq(m_messages'.errors, 1, Len(m_messages.errors)) = m_messages.errors
                     /\ LET e == m_messages'.errors[Len(m_messages'.errors)] IN
                            e.db = rld.relevant[ij[1]].name /\ e.pkg = rld.relevant[ij[1]].packages[ij[2]].name
                ELSE m_messages' = m_messages
       /\ writesBack =>
            \A ij \in toConsider(rld.relevant) :
                LET d == rld.relevant[ij[1]].name
                    p == rld.relevant[ij[1]].packages[ij[2]]
                IN  /\ ~aborted => p.taken = 1
                    /\ unparsed(rld, ij[1], ij[2]) =>
                            /\ cfg'[d].packages[p.name] = cfg[d].packages[p.name]
                            /\ indexEntries(cfg'[d], p.name) = indexEntries(cfg[d], p.name)
                    /\ (~unparsed(rld, ij[1], ij[2]) /\ unchangedSince(d, p)) =>
                            /\ cfg'[d].packages[p.name].origin = "PackageContents"
                            /\ cfg'[d].packages[p.name].libprovides = Libs
                            /\ indexed(cfg'[d], p.name)]_vars
\* after the write-back of a run that was not aborted: one package failed to parse, which is the one error
\* of the run, its database entry is as it was, and the other package was parsed and written back
C30_OneFailedOneWrittenBack ==
    /\ type = "ReloadLibraryDependencies" /\ pc = "conclude" /\ ~aborted
    /\ Len(m_messages.errors) = 1 /\ m_messages.errors[1].text = "parse error"
    /\ \E c \in considered :
        /\ ~c[3] /\ m_messages.errors[1].db = c[1] /\ m_messages.errors[1].pkg = c[2]
        /\ cfg[c[1]].packages[c[2]].origin = "PackageFileName"
    /\ \E c \in considered : c[3] /\ writtenBack(c[1], c[2])

\* the step in which the loop of run() looks at package n of the i-th relevant database
looksAt(i, n) ==
    /\ type = "ReloadLibraryDependencies" /\ pc = "collect" /\ ~aborted
    /\ nextPos(rld.cdb, rld.cpkg) = <<i, n>> /\ i <= Len(rld.dbOrder)
    /\ rld' # rld

\* C31: a package whose binary was resolved to a local path is skipped before parsing, with a note and
\* without being counted as remaining, if and only if ForceReload is not set, its origin is PackageContents
\* and its timestamp is at least the modification time of the file; with ForceReload no package is skipped
\* for that reason; and a package written back successfully gets the maximum of its timestamp and the
\* modification time, so that a second run that is not forced and finds the file unchanged skips it.
C31_SkipsUnmodifiedUnlessForced ==
    [][/\ \A i \in 1..MaxDbs, n \in PkgNames :
            looksAt(i, n) =>
                LET package == cfg[rld.dbOrder[i]].packages[n]
                    force == "ForceReload" \in flags
                    skipped == m_messages'.notes # m_messages.notes
                    added == rld'.relevant[i].packages # rld.relevant[i].packages
                    note == m_messages'.notes[Len(m_messages'.notes)]
                    e == rld'.relevant[i].packages[Len(rld'.relevant[i].packages)]
                IN  /\ skipped =>
                        /\ m_messages'.notes = Append(m_messages.notes, note)
                        /\ note.text = "skipping" /\ note.db = rld.dbOrder[i] /\ note.pkg = n
                        /\ ~force /\ package.origin = "PackageContents" /\ package.timestamp >= note.lastModified
                        /\ ~added /\ rld'.remaining = rld.remaining
                    /\ (added /\ ~e.url) =>
                        /\ force \/ package.origin # "PackageContents" \/ package.timestamp < e.lastModified
                        /\ rld'.remaining = rld.remaining + 1 /\ m_messages' = m_messages
                    /\ force => ~skipped
       /\ writesBack =>
            \A ij \in toConsider(rld.relevant) :
                LET d == rld.relevant[ij[1]].name
                    p == rld.relevant[ij[1]].packages[ij[2]]
                IN  (~p.url /\ ~unparsed(rld, ij[1], ij[2]) /\ unchangedSince(d, p)) =>
                        /\ cfg'[d].packages[p.name].timestamp = Max(cfg[d].packages[p.name].timestamp, p.lastModified)
                        /\ skipsUnmodified(FALSE, cfg'[d].packages[p.name], p.lastModified)]_vars
\* a run that is not forced has skipped the analysed package of the first database, whose file is not
\* newer, and has written back the package of the second, which the run after it would skip
C31_SkippedOneWroteBackOther ==
    /\ type = "ReloadLibraryDependencies" /\ pc = "conclude" /\ "ForceReload" \notin flags
    /\ \E k \in 1..Len(m_messages.notes) : m_messages.notes[k].text = "skipping" /\ m_messages.notes[k].db = 1
    /\ \E ij \in toConsider(rld.relevant) :
        LET d == rld.relevant[ij[1]].name
            p == rld.relevant[ij[1]].packages[ij[2]]
        IN  /\ ~p.url /\ p.lastModified = 2 /\ writtenBack(d, p.name)
            /\ skipsUnmodified(FALSE, cfg[d].packages[p.name], p.lastModified)

\* a step of parser worker t
workerStep(t) ==
    /\ type = "ReloadLibraryDependencies" /\ pc = "parse"
    /\ t \in DOMAIN rld.threads /\ rld'.threads[t] # rld.threads[t]
\* the step is a change another action makes to the Config
changedByOther == rld'.changes # rld.changes

\* C32: the write-back of ReloadLibraryDependencies is serialized: the action changes a database only in the
\* one step of the thread that has joined all parser workers and holds the Config write lock, no other action
\* changes the Config while the lock is held, and the workers neither write nor read the Config: their steps
\* leave it as it is, are taken without a lock on it, and a change of the Config by another action neither
\* enables nor disables a step of a worker.
C32_WriteBackSerialized ==
    [][/\ (cfg' # cfg /\ ~changedByOther) => writesBack /\ joined /\ configLock = "write"
       /\ changedByOther => configLock = "none"
       /\ (type = "ReloadLibraryDependencies" /\ configLock' = "write") => (joined /\ pc' = "writeBack")
       /\ \A t \in 1..MaxWorkers :
            /\ workerStep(t) => cfg' = cfg /\ configLock = "none" /\ configLock' = "none"
            /\ changedByOther =>
                /\ (ENABLED RldNextPackage(t))' = ENABLED RldNextPackage(t)
                /\ (ENABLED RldParse(t))' = ENABLED RldParse(t)]_vars
\* two workers have parsed while another action changed the Config, and after they were joined a package was
\* written back
C32_WrittenBackAfterJoin ==
    /\ type = "ReloadLibraryDependencies" /\ pc = "conclude"
    /\ Len(rld.threads) = MaxWorkers /\ joined /\ rld.changes = 1
    /\ \E c \in considered : c[3] /\ writtenBack(c[1], c[2])

\* C33: a CleanRepository that got past the checks for fatal errors finishes with Failure if and only if at
\* least one error was recorded in messages.errors while classifying, deleting or archiving, and with
\* Success otherwise; the resultData it reports holds exactly the errors, warnings and notes recorded.
C33_FailureIffErrors ==
    (Classified /\ pc = "done") =>
        /\ resultData.kind = "messages"
        /\ result = (IF resultData.data.errors = <<>> THEN "Success" ELSE "Failure")
\* CleanRepository has finished with Success although a file could not be deleted, which the resultData
\* reports as an error
C33_SuccessDespiteError ==
    /\ Classified /\ pc = "done" /\ result = "Success" /\ resultData.kind = "messages"
    /\ \E k \in 1..Len(resultData.data.errors) : resultData.data.errors[k].text = "Unable to delete"

\* the step in which run() of CleanRepository returns after a fatal error
fatalErrorStep == type = "CleanRepository" /\ pc = "run" /\ pc' = "done" /\ resultData'.kind = "messages"

\* C34: if CleanRepository meets a fatal error while discovering the repository directories or their databases,
\* it makes no change to the file system, releases the Config lock, and finishes with Failure with the messages
\* collected, the fatal error the last of them, as resultData.
C34_FatalErrorMutatesNothing ==
    [][fatalErrorStep =>
        /\ fsLog' = {} /\ repoDirs' = <<>>
        /\ configLock' = "none"
        /\ status' = "Finished" /\ result' = "Failure" /\ reportCount' = reportCount + 1
        /\ resultData'.data.warnings = m_messages.warnings /\ resultData'.data.notes = m_messages.notes
        /\ LET errors == resultData'.data.errors IN
            /\ Len(errors) > Len(m_messages.errors)
            /\ SubSeq(errors, 1, Len(m_messages.errors)) = m_messages.errors
            /\ errors[Len(errors)].text \in FatalErrors
            /\ \A k \in 1..(Len(errors) - 1) : errors[k].text \notin FatalErrors]_vars
\* CleanRepository found no "src" directory beside the repository, then could not read the database file of a
\* sibling directory, and finished with Failure and both errors without touching a file
C34_FailedAfterFatalError ==
    /\ type = "CleanRepository" /\ pc = "done" /\ result = "Failure" /\ resultData.kind = "messages"
    /\ repoDirs = <<>> /\ fsLog = {} /\ configLock = "none"
    /\ Len(resultData.data.errors) = 2
    /\ resultData.data.errors[1].text = "Unable to consider \"src\" dir"
    /\ resultData.data.errors[2].text = "Unable read database file in repo dir"

\* the classes of file f of directory i
toDelete(i, f) == f \in Range(repoDirs[i].toDelete)
toArchive(i, f) == f \in Range(repoDirs[i].toArchive)
looksLikePackage(f) == contains(f, ".pkg") \/ contains(f, ".src")
\* a relevant database of directory i references the exact file name
referenced(i, f) ==
    \E d \in Range(repoDirs[i].relevantDbs), n \in PkgNames :
        cfg[d].packages[n].present /\ cfg[d].packages[n].hasInfo /\ cfg[d].packages[n].fileName = f
\* every file is in one class only, and the file system operations follow the classes outside of "src"
oneClassEach ==
    \A i \in 1..Len(repoDirs) :
        /\ Range(repoDirs[i].toDelete) \cup Range(repoDirs[i].toArchive) \subseteq repoDirs[i].files
        /\ Range(repoDirs[i].toDelete) \cap Range(repoDirs[i].toArchive) = {}
        /\ Cardinality(Range(repoDirs[i].toDelete)) = Len(repoDirs[i].toDelete)
        /\ Cardinality(Range(repoDirs[i].toArchive)) = Len(repoDirs[i].toArchive)
        /\ \A f \in FileNames :
            /\ [op |-> "remove", path |-> Path("dir", i, f)] \in fsLog => toDelete(i, f)
            /\ [op |-> "rename", path |-> Path("dir", i, f)] \in fsLog => toArchive(i, f)
            /\ repoDirs[i].type = "Src" => ~touched(i, f)

\* C35 as stated: CleanRepository puts every file of a repository directory in exactly one class; a file that
\* looks like a package is never deleted and is archived exactly if no relevant database references its
\* exact file name; a file that does not is deleted and never archived; nothing in "src" is deleted or archived.
C35_ArchivedIffUnreferenced ==
    Classified =>
        /\ oneClassEach
        /\ \A i \in 1..Len(repoDirs) : \A f \in repoDirs[i].files :
            IF looksLikePackage(f)
            THEN ~toDelete(i, f) /\ (toArchive(i, f) <=> ~referenced(i, f))
            ELSE toDelete(i, f) /\ ~toArchive(i, f)

\* C35 as amended: a file whose name contains .db or .files is kept; of the others, a file that does not
\* look like a package is to delete, and a file that does is to archive exactly if its package name can be
\* parsed and no relevant database has an entry of that package that names this file or names no file.
C35_ClassifiedByNameAndEntries ==
    Classified =>
        /\ oneClassEach
        /\ \A i \in 1..Len(repoDirs) : \A f \in repoDirs[i].files :
            IF isDbFile(f) THEN ~toDelete(i, f) /\ ~toArchive(i, f)
            ELSE IF ~looksLikePackage(f) THEN toDelete(i, f) /\ ~toArchive(i, f)
            ELSE /\ ~toDelete(i, f)
                 /\ toArchive(i, f) <=>
                        /\ FileCatalog[f].pkg # 0
                        /\ \A d \in Range(repoDirs[i].relevantDbs) : ~listedExactly(d, f) /\ ~missesFileName(d, f)
\* after the file operations: the database file of a directory was kept, and so was a file of the directory
\* that looks like a package, is referenced by no database and has a name that cannot be parsed
C35_KeptUnparsableBesideDbFile ==
    /\ Classified /\ pc = "done" /\ "DryRun" \notin flags
    /\ \E i \in 1..Len(repoDirs) : \E f, g \in repoDirs[i].files :
        /\ isDbFile(f) /\ untouched(i, f)
        /\ looksLikePackage(g) /\ FileCatalog[g].pkg = 0 /\ ~referenced(i, g) /\ untouched(i, g)

\* the step in which RemovePackages handles a repo-remove that could not be invoked or exited non-zero
repoRemoveFailed ==
    /\ type = "RemovePackages" /\ pc = "waitRepoRemove" /\ pc' = "done"
    /\ \E e \in exited' \ exited : e.proc = "repo-remove" /\ e.exit # "ok"
\* the packages that were passed to repo-remove
passedToRepoRemove == UNION {Range(l.args) : l \in {x \in launched : x.proc = "repo-remove"}}
archived == {o \in fsLog : o.op = "rename"}

\* C36: if repo-remove cannot be invoked or exits non-zero in RemovePackages, no file is moved to an archive
\* directory, every package that was passed to repo-remove is moved from processedPackages to failedPackages
\* with the reason "repo-remove error", processedPackages is empty, errorMessage is set and the result is Failure.
C36_RepoRemoveErrorFailsAll ==
    [][repoRemoveFailed =>
        /\ fsLog' = fsLog /\ archived' = {}
        /\ passedToRepoRemove # {} /\ passedToRepoRemove = Range(m_result.processedPackages)
        /\ resultData'.kind = "movement"
        /\ resultData'.data.processedPackages = <<>>
        /\ \A n \in passedToRepoRemove :
                Cardinality({k \in 1..Len(resultData'.data.failedPackages) :
                                resultData'.data.failedPackages[k] = <<n, "repo-remove error">>}) = 1
        /\ SubSeq(resultData'.data.failedPackages, 1, Len(m_result.failedPackages)) = m_result.failedPackages
        /\ Len(resultData'.data.failedPackages) = Len(m_result.failedPackages) + Len(m_result.processedPackages)
        /\ resultData'.data.errorMessage # ""
        /\ status' = "Finished" /\ result' = "Failure"]_vars
\* repo-remove was given one package and exited non-zero: the action ended with Failure, the package failed
\* with "repo-remove error" after the package that is not listed in the database, and nothing was archived
C36_FailedWithRepoRemoveError ==
    /\ type = "RemovePackages" /\ pc = "done" /\ result = "Failure"
    /\ [proc |-> "repo-remove", exit |-> "nonZero"] \in exited
    /\ resultData.kind = "movement" /\ resultData.data.processedPackages = <<>>
    /\ Len(resultData.data.failedPackages) = 2
    /\ resultData.data.failedPackages[1][2] = "package not listed in database file"
    /\ resultData.data.failedPackages[2][2] = "repo-remove error"
    /\ archived = {}

\* the file operations of MovePackages that change or remove something of the source repository
onSource == {o \in fsLog : o.path[1] \in {"source", "sourceStorage"}}

\* C37: MovePackages never deletes, renames or overwrites the storage location of a package of the source
\* repository: it copies to and makes directories in the destination only, after a successful repo-remove it
\* removes nothing but the path within the source repository of the packages it passed to repo-remove, and a
\* package that could not be copied (ok = false) keeps its source file too.
C37_StorageLocationLeftIntact ==
    type = "MovePackages" =>
        /\ \A o \in fsLog :
            IF o.op \in {"copy", "mkdir"} THEN o.path[1] \in {"dest", "destStorage", "destStorageDir", "workdir"}
            ELSE o.op = "remove" /\ o.path[1] = "source" /\ o.path[2] \in copied
        /\ onSource # {} => [proc |-> "repo-remove", exit |-> "ok"] \in exited
        /\ \A i \in 1..Len(m_packageLocations) :
            ~m_packageLocations[i].ok => \A o \in onSource : o.path[2] # m_packageLocations[i].name
\* after a successful repo-remove the link of a package with a storage location was removed from the source
\* repository, and the other package, which could not be copied, still has its file there
C37_LinkRemovedTargetKept ==
    /\ type = "MovePackages" /\ pc = "done" /\ Len(m_packageLocations) = 2
    /\ \E i, j \in 1..2 :
        /\ m_packageLocations[i].storage /\ m_packageLocations[i].ok
        /\ onSource = {[op |-> "remove", path |-> Path("source", m_packageLocations[i].name, 0)]}
        /\ ~m_packageLocations[j].ok /\ m_packageLocations[j].name \notin copied

\* how the command of a CustomCommand ended, if it was launched
commandExited(exit) == [proc |-> "command", exit |-> exit] \in exited

\* C38: a CustomCommand with a directory and a command finishes with Success if and only if the process was
\* launched without error and exited with code 0; a launch error or a non-zero exit code yields Failure with a
\* string as error; exactly one of success and failure is reported per run, and the Building write lock is
\* held when success is reported.
C38_SuccessIffExitedWithZero ==
    (type = "CustomCommand" /\ directory # "" /\ command # "") =>
        /\ reportCount <= 1
        /\ reportCount = 1 <=> pc = "done"
        /\ reportCount = 0 => status # "Finished" /\ result = "None"
        /\ pc = "done" =>
            /\ status = "Finished"
            /\ result = (IF commandExited("ok") THEN "Success" ELSE "Failure")
            /\ result = "Failure" => resultData.kind = "string" /\ resultData.text # ""
            /\ result = "Success" => buildingLock /\ [proc |-> "command", args |-> <<>>] \in launched
            /\ Cardinality(exited) <= 1
\* the command was launched and exited with 0, and the action finished with Success under the Building lock
C38_CommandSucceeded ==
    /\ type = "CustomCommand" /\ directory # "" /\ command # ""
    /\ pc = "done" /\ commandExited("ok") /\ result = "Success" /\ reportCount = 1 /\ buildingLock

\* the values of BuildActionStatus and of BuildActionResult
BuildActionStatus == {"Created", "Enqueued", "AwaitingConfirmation", "Running", "Finished"}
BuildActionResult == {"None", "Success", "Failure", "ConfirmationDeclined", "Aborted"}
\* no two entries of a table share the id or the name, and every value has an entry
oneEntryEach(table, values) ==
    /\ \A i, j \in 1..Len(table) : (table[i].id = table[j].id \/ table[i].name = table[j].name) => i = j
    /\ \A v \in values : \E i \in 1..Len(table) : table[i].id = v
\* C39: every lookup key of the meta info is unique within its table, so that every element is found through
\* its mapping: the type of an entry among the types, the param of a flag among the flags of its type, the
\* param of a setting among the settings of its type, and id and name among the states and among the results,
\* with exactly one entry for every value of BuildActionStatus and of BuildActionResult.
C39_LookupKeysUnique ==
    /\ \A i, j \in 1..Len(types) : types[i].type = types[j].type => i = j
    /\ \A k \in 1..Len(lookups) : lookups[k].found = lookups[k].wanted
    /\ oneEntryEach(states, BuildActionStatus)
    /\ oneEntryEach(results, BuildActionResult)
\* the setting "Chroot default user" of ConductBuild was looked up by its param and "Chroot directory" found,
\* and the states hold two entries of AwaitingConfirmation, one of them with the name of Enqueued
C39_ChrootUserFindsChrootDir ==
    /\ \E k \in 1..Len(lookups) :
        /\ lookups[k].table = "settings" /\ lookups[k].type = "ConductBuild"
        /\ lookups[k].wanted.name = "Chroot default user" /\ lookups[k].found.name = "Chroot directory"
    /\ \E i, j \in 1..Len(states) :
        /\ i # j /\ states[i].id = "AwaitingConfirmation" /\ states[j].id = "AwaitingConfirmation"
        /\ states[j].name = "Enqueued"

\* the options that opts holds when the options of chosen were enabled: IncludeAllDependencies implies
\* IncludeSourceOnlyDependencies
holdsOption(chosen, x) == x \in chosen \/ (x = "IncludeSourceOnlyDependencies" /\ "IncludeAllDependencies" \in chosen)
\* C40: the test opts & X is true exactly when opts contains the option X: options with IncludeAllDependencies
\* test true for IncludeSourceOnlyDependencies too, IncludeSourceOnlyDependencies alone does not test true for
\* IncludeAllDependencies, ConsiderBuildDependencies tests true exactly when it was enabled itself, None tests
\* false for every option, and opts | X is the bitwise union.
C40_TestIsContainment ==
    /\ \A k \in 1..Len(options.tests) :
        LET t == options.tests[k] IN
        /\ t.result = holdsOption(t.chosen, t.x)
        /\ t.opts = BuildOrderOptions.None => ~t.result
    /\ \A b \in {1, 2, 4} :
        bitAnd(options.opts, b) # 0 <=> \E x \in options.chosen : bitAnd(BuildOrderOptions[x], b) # 0
\* IncludeSourceOnlyDependencies alone was enabled, and the test of IncludeAllDependencies was true
C40_SourceOnlyTestsAsAll ==
    \E k \in 1..Len(options.tests) :
        LET t == options.tests[k] IN
        /\ t.chosen = {"IncludeSourceOnlyDependencies"} /\ t.opts = BuildOrderOptions.IncludeSourceOnlyDependencies
        /\ t.x = "IncludeAllDependencies" /\ t.result

====
